---- MODULE Spec2Model ----
(***************************************************************************)
(* The order aggregate of the delivery order service: the OrderStatus      *)
(* state machine (order-status.ts), the OrderItem line (order-item.        *)
(* entity.ts) and the Order aggregate root with its business methods       *)
(* (order.entity.ts).  One Order object is followed from its construction  *)
(* (Order.create or Order.reconstitute) through any sequence of calls of   *)
(* its methods; every call records the method, its argument and the error  *)
(* class it threw (or "ok").  Spec follows an order made by Order.create,  *)
(* SpecNoItems one made with no items, SpecReconstitute one rebuilt by     *)
(* Order.reconstitute in any status, SpecScenario the lifecycle scenario,  *)
(* and SpecStatus the OrderStatus value object on its own.  The Money      *)
(* value object (money.ts) prices the lines, and SpecUpdateStatus runs     *)
(* UpdateOrderStatusUseCase (get-order.use-case.ts) over a repository      *)
(* that holds one order.  SpecOverlap lets two such executions overlap at  *)
(* their awaits, SpecCreateOrder runs CreateOrderUseCase on one dto,       *)
(* SpecListOrders the pagination of ListOrdersUseCase, SpecMoney chains    *)
(* the operations of Money, SpecOrderNumbers makes two orders and keeps    *)
(* their order numbers, and SpecItemIds adds items that carry ids.         *)
(* SpecReferences lets a caller keep the objects it passed to or got from  *)
(* the order, SpecHistory keeps the statuses an order has gone through,    *)
(* SpecStored reads the stored order while updates are under way, and      *)
(* SpecAccess sends one request of a user to OrderController.              *)
(***************************************************************************)
EXTENDS Integers, Sequences, FiniteSets, TLC

VARIABLES
    order,       \* the private fields of the Order object
    now,         \* the wall clock read by new Date()
    lastOp,      \* the last method called on the order, with its argument
    lastResult,  \* "ok", or the class of the error the last call threw
    pFrom,       \* OrderStatus probe: raw string of the receiver
    pTo,         \* OrderStatus probe: raw string of the argument
    pResult,     \* OrderStatus probe: result of canTransitionTo
    exec,        \* the last UpdateOrderStatusUseCase.execute: the repository
                 \* calls it made, where it threw, the projection it returned
    returned,    \* the value the last call of a function returned
    runs         \* the executions in progress, when they overlap in time
                 \* (SpecMoney: the two Money values in hand)

vars == <<order, now, lastOp, lastResult, pFrom, pTo, pResult, exec, returned, runs>>

orderVars == <<order, now, lastOp, lastResult>>
probeVars == <<pFrom, pTo, pResult>>

-----------------------------------------------------------------------------
(* Bounds *)

MaxTime == 2    \* the clock runs over 1..MaxTime
MaxQty == 2     \* no line quantity is driven above MaxQty
MaxItems == 3   \* a CreateOrderDTO carries at most MaxItems items

-----------------------------------------------------------------------------
(* OrderStatus value object *)

\* enum OrderStatusEnum
OrderStatusEnum == {"CREATED", "CONFIRMED", "DISPATCHED", "DELIVERED", "CANCELLED"}

\* Mutant of VALID_TRANSITIONS: a dispatched order may still be cancelled
VALID_TRANSITIONS_DispatchedCancellable ==
    [s \in OrderStatusEnum |->
        CASE s = "CREATED"    -> {"CONFIRMED", "CANCELLED"}
          [] s = "CONFIRMED"  -> {"DISPATCHED", "CANCELLED"}
          [] s = "DISPATCHED" -> {"DELIVERED", "CANCELLED"}
          [] s = "DELIVERED"  -> {}
          [] s = "CANCELLED"  -> {}]

\* Mutant of VALID_TRANSITIONS: a cancelled order may be confirmed again
VALID_TRANSITIONS_CancelledReopens ==
    [s \in OrderStatusEnum |->
        CASE s = "CREATED"    -> {"CONFIRMED", "CANCELLED"}
          [] s = "CONFIRMED"  -> {"DISPATCHED", "CANCELLED"}
          [] s = "DISPATCHED" -> {"DELIVERED"}
          [] s = "DELIVERED"  -> {}
          [] s = "CANCELLED"  -> {"CONFIRMED"}]

\* private static readonly VALID_TRANSITIONS
VALID_TRANSITIONS ==
    [s \in OrderStatusEnum |->
        CASE s = "CREATED"    -> {"CONFIRMED", "CANCELLED"}
          [] s = "CONFIRMED"  -> {"DISPATCHED", "CANCELLED"}
          [] s = "DISPATCHED" -> {"DELIVERED"}
          [] s = "DELIVERED"  -> {}
          [] s = "CANCELLED"  -> {}]

\* private static readonly TERMINAL_STATES
TERMINAL_STATES == {"DELIVERED", "CANCELLED"}

\* The raw strings handed to OrderStatus.create and Order.transitionTo.
RawStatusStrings ==
    {"CREATED", "CONFIRMED", "DISPATCHED", "DELIVERED", "CANCELLED",
     "confirmed", "SHIPPED", ""}

\* String.prototype.toUpperCase on the raw strings above
toUpperCase(s) ==
    CASE s = "confirmed" -> "CONFIRMED"
      [] OTHER           -> s

\* OrderStatus.create: does it return (TRUE) or throw Error (FALSE)
OrderStatusCreateOk(raw) == toUpperCase(raw) \in OrderStatusEnum

\* OrderStatus.create: the value of the status it returns
OrderStatusCreate(raw) == toUpperCase(raw)

\* OrderStatus.createDefault
createDefault == "CREATED"

\* canTransitionTo(targetStatus) on the status with value from
canTransitionTo(from, to) == to \in VALID_TRANSITIONS[from]

\* Mutant of isTerminal: CANCELLED not held to be terminal
isTerminal_DeliveredOnly(s) == s = "DELIVERED"

\* isTerminal()
isTerminal(s) == s \in TERMINAL_STATES

\* Mutant of isCancellable: cancellable taken to mean not terminal
isCancellable_NotTerminal(s) == s \notin {"DELIVERED", "CANCELLED"}

\* isCancellable()
isCancellable(s) == s = "CREATED" \/ s = "CONFIRMED"

-----------------------------------------------------------------------------
(* Money value object.  Amounts are kept in cents, so the rounding of       *)
(* Money.create to two decimal places leaves every amount of the model as  *)
(* it is.                                                                   *)

\* The outcome of a Money method that threw Error
MoneyThrown == [amount |-> -1, currency |-> "Error"]

\* Mutant of Money.create: the check of the sign left out
MoneyCreate_NoCheck(amount, currency) ==
    [amount |-> amount, currency |-> toUpperCase(currency)]

\* Money.create(amount, currency)
MoneyCreate(amount, currency) ==
    IF amount < 0 THEN MoneyThrown
    ELSE [amount |-> amount, currency |-> toUpperCase(currency)]

\* Money.zero(currency = 'USD'), called with no argument
MoneyZero == [amount |-> 0, currency |-> toUpperCase("USD")]

\* ensureSameCurrency(other): does it return (TRUE) or throw Error (FALSE)
ensureSameCurrency(m, other) == m.currency = other.currency

\* add(other)
MoneyAdd(m, other) ==
    IF ~ensureSameCurrency(m, other) THEN MoneyThrown
    ELSE MoneyCreate(m.amount + other.amount, m.currency)

\* subtract(other)
MoneySubtract(m, other) ==
    IF ~ensureSameCurrency(m, other) THEN MoneyThrown
    ELSE LET result == m.amount - other.amount IN
         IF result < 0 THEN MoneyThrown
         ELSE MoneyCreate(result, m.currency)

\* multiply(factor)
MoneyMultiply(m, factor) ==
    IF factor < 0 THEN MoneyThrown
    ELSE MoneyCreate(m.amount * factor, m.currency)

\* Money.zero(currency)
zero(currency) == [amount |-> 0, currency |-> toUpperCase(currency)]

\* What a comparison returns: a boolean, or nothing when it throws Error
Boolean(b) == [value |-> IF b THEN "true" ELSE "false"]
CompareThrown == [value |-> "Error"]

\* equals(other)
MoneyEquals(m, other) ==
    Boolean(m.amount = other.amount /\ m.currency = other.currency)

\* Mutant of greaterThan: the amounts compared whatever the currencies
MoneyGreaterThan_AnyCurrency(m, other) == Boolean(m.amount > other.amount)

\* greaterThan(other)
MoneyGreaterThan(m, other) ==
    IF ~ensureSameCurrency(m, other) THEN CompareThrown
    ELSE Boolean(m.amount > other.amount)

\* lessThan(other)
MoneyLessThan(m, other) ==
    IF ~ensureSameCurrency(m, other) THEN CompareThrown
    ELSE Boolean(m.amount < other.amount)

-----------------------------------------------------------------------------
(* OrderItem *)

undefined == 0   \* an unset Date field; the clock starts at 1

ProductIds == {"prod-1", "prod-2"}

\* The unit prices of the lines: one in the default currency, one in another
UnitPrices == {MoneyCreate(1000, "USD"), MoneyCreate(500, "EUR")}

\* The price a product is sold at: prod-1 in USD, prod-2 in EUR
unitPriceOf(p) ==
    IF p = "prod-1" THEN MoneyCreate(1000, "USD") ELSE MoneyCreate(500, "EUR")

\* OrderItem.create: the validation of quantity (Number.isInteger is true of
\* every quantity of the model, all of them being integers)
QuantityValid(q) == q \in Int /\ q > 0

\* The quantities of the items handed to addItem
InputQuantities == {1, 2}

\* The OrderItem objects OrderItem.create returns, within the bounds
OrderItems ==
    {[productId |-> p, quantity |-> q, unitPrice |-> unitPriceOf(p)] :
        p \in ProductIds, q \in InputQuantities}

\* get totalPrice()
totalPrice(item) == MoneyMultiply(item.unitPrice, item.quantity)

\* OrderItem.updateQuantity: the item after the call (the caller has checked
\* QuantityValid, as updateQuantity throws otherwise)
updateQuantity(item, q) == [item EXCEPT !.quantity = q]


-----------------------------------------------------------------------------
(* Order aggregate: the methods as functions of the object and the clock.   *)
(* Each returns the object after the call and "ok" or the error thrown.     *)

Return(o) == [order |-> o, result |-> "ok"]
Throw(o, e) == [order |-> o, result |-> e]

\* this._items.findIndex(i => i.productId === productId), 1-based; 0 is the
\* -1 of the source (no such line).  Array.prototype.find returns the line
\* at the same place.
findIndex(items, productId) ==
    IF \E i \in 1..Len(items) : items[i].productId = productId
    THEN CHOOSE i \in 1..Len(items) :
            /\ items[i].productId = productId
            /\ \A j \in 1..(i - 1) : items[j].productId # productId
    ELSE 0

\* this._items.splice(index, 1)
splice(items, index) ==
    [i \in 1..(Len(items) - 1) |-> IF i < index THEN items[i] ELSE items[i + 1]]

\* this._items.reduce((total, item) => total.add(item.totalPrice), total),
\* from line i on; a throw of add leaves the reduce at once
RECURSIVE reduce(_, _, _)
reduce(items, i, total) ==
    IF i > Len(items) THEN total
    ELSE LET next == MoneyAdd(total, totalPrice(items[i])) IN
         IF next = MoneyThrown THEN MoneyThrown ELSE reduce(items, i + 1, next)

\* get totalAmount(): the Money it returns, or MoneyThrown
totalAmount(o) ==
    IF Len(o.items) = 0 THEN MoneyZero
    ELSE reduce(o.items, 1, MoneyZero)

\* The readonly fields the constructor copies from the props, the same in
\* every order of the model: id, orderNumber, retailerId, the customer
\* fields and the deliveryAddress
Identity ==
    [id |-> "order-1", orderNumber |-> "ORD-1", retailerId |-> "uuid-known",
     customerId |-> "cust-1", customerName |-> "John Doe",
     customerEmail |-> "john@example.com", deliveryAddress |-> "1 Main St"]

\* Mutant of Order.create: the status of the props kept
OrderCreate_KeepStatus(props, t) ==
    [status       |-> props.status,
     items        |-> props.items,
     notes        |-> props.notes,
     createdAt    |-> t,
     updatedAt    |-> t,
     confirmedAt  |-> undefined,
     dispatchedAt |-> undefined,
     deliveredAt  |-> undefined,
     cancelledAt  |-> undefined,
     identity     |-> Identity]

\* private constructor(props), as used by Order.create: status forced to the
\* default, the lifecycle dates left as the props give them (absent here)
OrderCreate(props, t) ==
    [status       |-> createDefault,
     items        |-> props.items,
     notes        |-> props.notes,
     createdAt    |-> t,
     updatedAt    |-> t,
     confirmedAt  |-> undefined,
     dispatchedAt |-> undefined,
     deliveredAt  |-> undefined,
     cancelledAt  |-> undefined,
     identity     |-> Identity]

\* Order.reconstitute(props): the constructor with the props as they are
OrderReconstitute(props, t) ==
    [status       |-> props.status,
     items        |-> props.items,
     notes        |-> props.notes,
     createdAt    |-> t,
     updatedAt    |-> t,
     confirmedAt  |-> undefined,
     dispatchedAt |-> undefined,
     deliveredAt  |-> undefined,
     cancelledAt  |-> undefined,
     identity     |-> Identity]

\* Mutant of addItem: the two status guards left out
addItem_NoGuard(o, item, t) ==
    LET idx == findIndex(o.items, item.productId) IN
    IF idx # 0
    THEN LET q == o.items[idx].quantity + item.quantity IN
         IF ~QuantityValid(q) THEN Throw(o, "Error")
         ELSE Return([o EXCEPT !.items[idx] = updateQuantity(@, q), !.updatedAt = t])
    ELSE Return([o EXCEPT !.items = Append(@, item), !.updatedAt = t])

\* Mutant of addItem: the existing line takes the new quantity, not the sum
addItem_Replace(o, item, t) ==
    IF isTerminal(o.status) THEN Throw(o, "BusinessRuleViolationError")
    ELSE IF o.status # "CREATED" THEN Throw(o, "BusinessRuleViolationError")
    ELSE LET idx == findIndex(o.items, item.productId) IN
         IF idx # 0
         THEN Return([o EXCEPT !.items[idx] = updateQuantity(@, item.quantity),
                               !.updatedAt = t])
         ELSE Return([o EXCEPT !.items = Append(@, item), !.updatedAt = t])

\* Mutant of addItem: every item becomes a new line, no merge
addItem_AlwaysAppend(o, item, t) ==
    IF isTerminal(o.status) THEN Throw(o, "BusinessRuleViolationError")
    ELSE IF o.status # "CREATED" THEN Throw(o, "BusinessRuleViolationError")
    ELSE Return([o EXCEPT !.items = Append(@, item), !.updatedAt = t])

\* An id that is set (this._id && other._id: both truthy)
hasId(item) == item.id # "undefined"

\* OrderItem.equals(other)
equals(item, other) ==
    IF hasId(item) /\ hasId(other) THEN item.id = other.id
    ELSE item.productId = other.productId

\* Mutant of addItem: the line to merge into found with OrderItem.equals
addItem_ByEquals(o, item, t) ==
    IF isTerminal(o.status) THEN Throw(o, "BusinessRuleViolationError")
    ELSE IF o.status # "CREATED" THEN Throw(o, "BusinessRuleViolationError")
    ELSE IF \E i \in 1..Len(o.items) : equals(o.items[i], item)
         THEN LET idx == CHOOSE i \in 1..Len(o.items) :
                            /\ equals(o.items[i], item)
                            /\ \A j \in 1..(i - 1) : ~equals(o.items[j], item)
                  q == o.items[idx].quantity + item.quantity
              IN IF ~QuantityValid(q) THEN Throw(o, "Error")
                 ELSE Return([o EXCEPT !.items[idx] = updateQuantity(@, q),
                                       !.updatedAt = t])
         ELSE Return([o EXCEPT !.items = Append(@, item), !.updatedAt = t])

\* addItem(item); t is the clock read of line 191
addItem(o, item, t) ==
    IF isTerminal(o.status) THEN Throw(o, "BusinessRuleViolationError")
    ELSE IF o.status # "CREATED" THEN Throw(o, "BusinessRuleViolationError")
    ELSE LET idx == findIndex(o.items, item.productId) IN
         IF idx # 0
         THEN LET q == o.items[idx].quantity + item.quantity IN
              IF ~QuantityValid(q) THEN Throw(o, "Error")
              ELSE Return([o EXCEPT !.items[idx] = updateQuantity(@, q),
                                    !.updatedAt = t])
         ELSE Return([o EXCEPT !.items = Append(@, item), !.updatedAt = t])

\* Mutant of removeItem: only the terminal guard, not the CREATED guard
removeItem_TerminalGuardOnly(o, productId, t) ==
    IF isTerminal(o.status) THEN Throw(o, "BusinessRuleViolationError")
    ELSE LET index == findIndex(o.items, productId) IN
         IF index = 0 THEN Throw(o, "Error")
         ELSE Return([o EXCEPT !.items = splice(@, index), !.updatedAt = t])

\* removeItem(productId)
removeItem(o, productId, t) ==
    IF isTerminal(o.status) THEN Throw(o, "BusinessRuleViolationError")
    ELSE IF o.status # "CREATED" THEN Throw(o, "BusinessRuleViolationError")
    ELSE LET index == findIndex(o.items, productId) IN
         IF index = 0 THEN Throw(o, "Error")
         ELSE Return([o EXCEPT !.items = splice(@, index), !.updatedAt = t])

\* updateItemQuantity(productId, quantity)
updateItemQuantity(o, productId, quantity, t) ==
    IF isTerminal(o.status) THEN Throw(o, "BusinessRuleViolationError")
    ELSE IF o.status # "CREATED" THEN Throw(o, "BusinessRuleViolationError")
    ELSE LET idx == findIndex(o.items, productId) IN
         IF idx = 0 THEN Throw(o, "Error")
         ELSE IF ~QuantityValid(quantity) THEN Throw(o, "Error")
         ELSE Return([o EXCEPT !.items[idx] = updateQuantity(@, quantity),
                               !.updatedAt = t])

\* Mutant of confirm: the zero-items rule left out
confirm_NoItemCheck(o, t1, t2) ==
    IF ~canTransitionTo(o.status, OrderStatusCreate("CONFIRMED"))
    THEN Throw(o, "InvalidStateTransitionError")
    ELSE Return([o EXCEPT !.status = OrderStatusCreate("CONFIRMED"),
                          !.confirmedAt = t1, !.updatedAt = t2])

\* Mutant of confirm: the zero-items rule tested before the transition table
confirm_ItemsFirst(o, t1, t2) ==
    IF Len(o.items) = 0 THEN Throw(o, "BusinessRuleViolationError")
    ELSE IF ~canTransitionTo(o.status, OrderStatusCreate("CONFIRMED"))
    THEN Throw(o, "InvalidStateTransitionError")
    ELSE Return([o EXCEPT !.status = OrderStatusCreate("CONFIRMED"),
                          !.confirmedAt = t1, !.updatedAt = t2])

\* Mutant of confirm: confirmedAt stamped before the zero-items rule is tested
confirm_StampFirst(o, t1, t2) ==
    IF ~canTransitionTo(o.status, OrderStatusCreate("CONFIRMED"))
    THEN Throw(o, "InvalidStateTransitionError")
    ELSE IF Len(o.items) = 0
    THEN Throw([o EXCEPT !.confirmedAt = t1], "BusinessRuleViolationError")
    ELSE Return([o EXCEPT !.status = OrderStatusCreate("CONFIRMED"),
                          !.confirmedAt = t1, !.updatedAt = t2])

\* confirm(); t1 and t2 are the two clock reads of lines 246 and 247
confirm(o, t1, t2) ==
    IF ~canTransitionTo(o.status, OrderStatusCreate("CONFIRMED"))
    THEN Throw(o, "InvalidStateTransitionError")
    ELSE IF Len(o.items) = 0 THEN Throw(o, "BusinessRuleViolationError")
    ELSE Return([o EXCEPT !.status = OrderStatusCreate("CONFIRMED"),
                          !.confirmedAt = t1, !.updatedAt = t2])

\* Mutant of dispatch: dispatchedAt left as it is
dispatch_NoStamp(o, t1, t2) ==
    IF ~canTransitionTo(o.status, OrderStatusCreate("DISPATCHED"))
    THEN Throw(o, "InvalidStateTransitionError")
    ELSE Return([o EXCEPT !.status = OrderStatusCreate("DISPATCHED"), !.updatedAt = t2])

\* Mutant of dispatch: the terminal-state check made first, as in addItem
dispatch_TerminalFirst(o, t1, t2) ==
    IF isTerminal(o.status) THEN Throw(o, "BusinessRuleViolationError")
    ELSE IF ~canTransitionTo(o.status, OrderStatusCreate("DISPATCHED"))
    THEN Throw(o, "InvalidStateTransitionError")
    ELSE Return([o EXCEPT !.status = OrderStatusCreate("DISPATCHED"),
                          !.dispatchedAt = t1, !.updatedAt = t2])

\* dispatch()
dispatch(o, t1, t2) ==
    IF ~canTransitionTo(o.status, OrderStatusCreate("DISPATCHED"))
    THEN Throw(o, "InvalidStateTransitionError")
    ELSE Return([o EXCEPT !.status = OrderStatusCreate("DISPATCHED"),
                          !.dispatchedAt = t1, !.updatedAt = t2])

\* Mutant of deliver: the notes cleared on delivery
deliver_ClearsNotes(o, t1, t2) ==
    IF ~canTransitionTo(o.status, OrderStatusCreate("DELIVERED"))
    THEN Throw(o, "InvalidStateTransitionError")
    ELSE Return([o EXCEPT !.status = OrderStatusCreate("DELIVERED"), !.notes = "undefined",
                          !.deliveredAt = t1, !.updatedAt = t2])

\* deliver()
deliver(o, t1, t2) ==
    IF ~canTransitionTo(o.status, OrderStatusCreate("DELIVERED"))
    THEN Throw(o, "InvalidStateTransitionError")
    ELSE Return([o EXCEPT !.status = OrderStatusCreate("DELIVERED"),
                          !.deliveredAt = t1, !.updatedAt = t2])

\* Mutant of cancel: guarded by the transition table like the other three
cancel_ViaTable(o, t1, t2) ==
    IF ~canTransitionTo(o.status, OrderStatusCreate("CANCELLED"))
    THEN Throw(o, "InvalidStateTransitionError")
    ELSE Return([o EXCEPT !.status = OrderStatusCreate("CANCELLED"),
                          !.cancelledAt = t1, !.updatedAt = t2])

\* cancel()
cancel(o, t1, t2) ==
    IF ~isCancellable(o.status) THEN Throw(o, "BusinessRuleViolationError")
    ELSE Return([o EXCEPT !.status = OrderStatusCreate("CANCELLED"),
                          !.cancelledAt = t1, !.updatedAt = t2])

\* Mutant of transitionTo: the terminal-state check left out
transitionTo_NoTerminalCheck(o, targetStatusValue, t1, t2) ==
    IF ~OrderStatusCreateOk(targetStatusValue) THEN Throw(o, "Error")
    ELSE LET targetStatus == OrderStatusCreate(targetStatusValue) IN
         CASE targetStatus = "CONFIRMED"  -> confirm(o, t1, t2)
           [] targetStatus = "DISPATCHED" -> dispatch(o, t1, t2)
           [] targetStatus = "DELIVERED"  -> deliver(o, t1, t2)
           [] targetStatus = "CANCELLED"  -> cancel(o, t1, t2)
           [] OTHER -> Throw(o, "InvalidStateTransitionError")

\* Mutant of transitionTo: a switch with no default branch
transitionTo_NoDefault(o, targetStatusValue, t1, t2) ==
    IF ~OrderStatusCreateOk(targetStatusValue) THEN Throw(o, "Error")
    ELSE LET targetStatus == OrderStatusCreate(targetStatusValue) IN
         IF isTerminal(o.status) THEN Throw(o, "BusinessRuleViolationError")
         ELSE CASE targetStatus = "CONFIRMED"  -> confirm(o, t1, t2)
                [] targetStatus = "DISPATCHED" -> dispatch(o, t1, t2)
                [] targetStatus = "DELIVERED"  -> deliver(o, t1, t2)
                [] targetStatus = "CANCELLED"  -> cancel(o, t1, t2)
                [] OTHER -> Return(o)

\* transitionTo(targetStatusValue)
transitionTo(o, targetStatusValue, t1, t2) ==
    IF ~OrderStatusCreateOk(targetStatusValue) THEN Throw(o, "Error")
    ELSE LET targetStatus == OrderStatusCreate(targetStatusValue) IN
         IF isTerminal(o.status) THEN Throw(o, "BusinessRuleViolationError")
         ELSE CASE targetStatus = "CONFIRMED"  -> confirm(o, t1, t2)
                [] targetStatus = "DISPATCHED" -> dispatch(o, t1, t2)
                [] targetStatus = "DELIVERED"  -> deliver(o, t1, t2)
                [] targetStatus = "CANCELLED"  -> cancel(o, t1, t2)
                [] OTHER -> Throw(o, "InvalidStateTransitionError")

\* Mutant of updateNotes: guarded against terminal statuses, as addItem is
updateNotes_TerminalGuard(o, notes, t) ==
    IF isTerminal(o.status) THEN Throw(o, "BusinessRuleViolationError")
    ELSE Return([o EXCEPT !.notes = notes, !.updatedAt = t])

\* Mutant of updateNotes: updatedAt left as it is
updateNotes_NoTouch(o, notes, t) == Return([o EXCEPT !.notes = notes])

\* updateNotes(notes)
updateNotes(o, notes, t) == Return([o EXCEPT !.notes = notes, !.updatedAt = t])

-----------------------------------------------------------------------------
(* UpdateOrderStatusUseCase over the order repository.  The repository      *)
(* holds one order, under the id StoredId; the variable order is then the   *)
(* stored order, as findById rebuilds it.                                   *)

StoredId == "order-1"

\* The orderId arguments of execute
OrderIds == {StoredId, "order-missing"}

\* updateOrderStatusSchema: z.enum of four statuses, matched letter for letter
updateOrderStatusSchema(status) ==
    status \in {"CONFIRMED", "DISPATCHED", "DELIVERED", "CANCELLED"}

\* The null that findById returns for an id the repository does not hold
null == [status |-> "null"]

\* orderRepository.findById(id): the stored order rebuilt, or null
findById(stored, id) == IF id = StoredId THEN stored ELSE null

\* prisma.orderItem.deleteMany({where: {orderId}}): the first statement of
\* update, which drops the stored lines
deleteMany(stored) == [stored EXCEPT !.items = << >>]

\* Mutant of prisma.order.update: the row is written only when the table
\* allows the move from the stored status to the new one
orderUpdate_AlongTable(stored, o) ==
    IF o.status \notin VALID_TRANSITIONS[stored.status] THEN stored
    ELSE [stored EXCEPT !.status = o.status, !.notes = o.notes,
                        !.confirmedAt = o.confirmedAt, !.dispatchedAt = o.dispatchedAt,
                        !.deliveredAt = o.deliveredAt, !.cancelledAt = o.cancelledAt,
                        !.items = @ \o o.items]

\* prisma.order.update({where: {id}, data}): the second statement of update,
\* which writes the status, the notes and the four lifecycle dates and
\* creates the lines of the order next to those the row has
orderUpdate(stored, o) ==
    [stored EXCEPT !.status = o.status, !.notes = o.notes,
                   !.confirmedAt = o.confirmedAt, !.dispatchedAt = o.dispatchedAt,
                   !.deliveredAt = o.deliveredAt, !.cancelledAt = o.cancelledAt,
                   !.items = @ \o o.items]

\* orderRepository.update(order), run with no other statement in between:
\* the stored order after the two statements
update(stored, o) == orderUpdate(deleteMany(stored), o)

NoResponse == [status |-> "none", totalAmount |-> 0, currency |-> "none"]

\* The outcome of a mapToResponse that threw
ResponseThrown == [status |-> "thrown", totalAmount |-> 0, currency |-> "none"]

\* mapToResponse(order): the projection (its status and total), or
\* ResponseThrown when the read of totalAmount throws
mapToResponse(o) ==
    IF totalAmount(o) = MoneyThrown THEN ResponseThrown
    ELSE [status |-> o.status, totalAmount |-> totalAmount(o).amount,
          currency |-> totalAmount(o).currency]

\* What one execution did: the stored order after it, the error it threw
\* (or "ok"), the repository methods it called, the step that threw, the
\* projection it returned
Execution(stored, result, calls, thrownBy, response) ==
    [order |-> stored, result |-> result, calls |-> calls,
     thrownBy |-> thrownBy, response |-> response]

\* Mutant of execute: the order is loaded before the input is validated
execute_LoadFirst(stored, orderId, status, t1, t2) ==
    LET found == findById(stored, orderId) IN
    IF ~updateOrderStatusSchema(status)
    THEN Execution(stored, "ValidationError", <<"findById">>, "validateOrThrow", NoResponse)
    ELSE IF found = null
    THEN Execution(stored, "NotFoundError", <<"findById">>, "execute", NoResponse)
    ELSE LET r == transitionTo(found, status, t1, t2) IN
         IF r.result # "ok"
         THEN Execution(stored, r.result, <<"findById">>, "transitionTo", NoResponse)
         ELSE LET updatedOrder == update(stored, r.order) IN
              IF mapToResponse(updatedOrder) = ResponseThrown
              THEN Execution(updatedOrder, "Error", <<"findById", "update">>,
                             "mapToResponse", NoResponse)
              ELSE Execution(updatedOrder, "ok", <<"findById", "update">>, "",
                             mapToResponse(updatedOrder))

\* Mutant of execute: the error of transitionTo caught, the order saved as
\* it is, and a generic Error thrown in its place
execute_SaveAndWrap(stored, orderId, status, t1, t2) ==
    IF ~updateOrderStatusSchema(status)
    THEN Execution(stored, "ValidationError", << >>, "validateOrThrow", NoResponse)
    ELSE LET found == findById(stored, orderId) IN
         IF found = null
         THEN Execution(stored, "NotFoundError", <<"findById">>, "execute", NoResponse)
         ELSE LET r == transitionTo(found, status, t1, t2) IN
              IF r.result # "ok"
              THEN Execution(update(stored, r.order), "Error", <<"findById", "update">>,
                             "transitionTo", NoResponse)
              ELSE LET updatedOrder == update(stored, r.order) IN
                   IF mapToResponse(updatedOrder) = ResponseThrown
                   THEN Execution(updatedOrder, "Error", <<"findById", "update">>,
                                  "mapToResponse", NoResponse)
                   ELSE Execution(updatedOrder, "ok", <<"findById", "update">>, "",
                                  mapToResponse(updatedOrder))

\* UpdateOrderStatusUseCase.execute(orderId, dto) with dto.status = status;
\* t1 and t2 are the clock reads of the transition
execute(stored, orderId, status, t1, t2) ==
    IF ~updateOrderStatusSchema(status)
    THEN Execution(stored, "ValidationError", << >>, "validateOrThrow", NoResponse)
    ELSE LET found == findById(stored, orderId) IN
         IF found = null
         THEN Execution(stored, "NotFoundError", <<"findById">>, "execute", NoResponse)
         ELSE LET r == transitionTo(found, status, t1, t2) IN
              IF r.result # "ok"
              THEN Execution(stored, r.result, <<"findById">>, "transitionTo", NoResponse)
              ELSE LET updatedOrder == update(stored, r.order) IN
                   IF mapToResponse(updatedOrder) = ResponseThrown
                   THEN Execution(updatedOrder, "Error", <<"findById", "update">>,
                                  "mapToResponse", NoResponse)
                   ELSE Execution(updatedOrder, "ok", <<"findById", "update">>, "",
                                  mapToResponse(updatedOrder))

-----------------------------------------------------------------------------
(* CreateOrderUseCase over the retailer and the order repository            *)

\* The retailerId of a dto: the uuid of a retailer the repository holds, a
\* uuid it does not hold, a string that is no uuid
RetailerIds == {"uuid-known", "uuid-unknown", "not-a-uuid"}

\* retailerRepository.exists(id)
exists(retailerId) == retailerId = "uuid-known"

\* The items of a dto: priced lines of the two products, in USD and in EUR,
\* one with a blank productId, one with the quantity zero
ItemDTOs ==
    {[productId |-> "prod-1", quantity |-> 1, unitPrice |-> 1000, currency |-> "USD"],
     [productId |-> "prod-1", quantity |-> 2, unitPrice |-> 1000, currency |-> "USD"],
     [productId |-> "prod-2", quantity |-> 1, unitPrice |-> 1000, currency |-> "USD"],
     [productId |-> "prod-2", quantity |-> 1, unitPrice |-> 500, currency |-> "EUR"],
     [productId |-> " ", quantity |-> 1, unitPrice |-> 1000, currency |-> "USD"],
     [productId |-> "prod-1", quantity |-> 0, unitPrice |-> 1000, currency |-> "USD"]}

\* The sequences of at most n items
RECURSIVE ItemLists(_)
ItemLists(n) ==
    IF n = 0 THEN {<< >>}
    ELSE ItemLists(n - 1) \cup
         {Append(l, i) : l \in {m \in ItemLists(n - 1) : Len(m) = n - 1}, i \in ItemDTOs}

\* The dtos handed to execute; street and customerId are either filled or
\* a blank, which the schema lets through (min(1)) and the domain rejects
CreateOrderDTOs ==
    [retailerId : RetailerIds, street : {"1 Main St", " "},
     customerId : {"cust-1", " "}, items : ItemLists(MaxItems)]

\* s.trim().length === 0, on the strings of the model
blank(str) == str = " "

\* createOrderSchema: does the dto pass (TRUE) or not (FALSE)
createOrderSchema(dto) ==
    /\ dto.retailerId # "not-a-uuid"
    /\ dto.street # "" /\ dto.customerId # ""
    /\ \A i \in 1..Len(dto.items) :
          /\ dto.items[i].productId # ""
          /\ QuantityValid(dto.items[i].quantity)
          /\ dto.items[i].unitPrice > 0

\* OrderItem.create(props): does it return (TRUE) or throw Error (FALSE)
OrderItemCreateOk(props) ==
    /\ ~blank(props.productId)
    /\ QuantityValid(props.quantity)
    /\ props.unitPrice # MoneyThrown /\ props.unitPrice.amount > 0

\* The for loop of execute from item i on: OrderItem.create, then addItem
RECURSIVE addItems(_, _, _, _)
addItems(o, itemDtos, i, t) ==
    IF i > Len(itemDtos) THEN Return(o)
    ELSE LET itemDto == itemDtos[i]
             props == [productId |-> itemDto.productId, quantity |-> itemDto.quantity,
                       unitPrice |-> MoneyCreate(itemDto.unitPrice, itemDto.currency)]
         IN IF ~OrderItemCreateOk(props) THEN Throw(o, "Error")
            ELSE LET r == addItem(o, props, t) IN
                 IF r.result # "ok" THEN r ELSE addItems(r.order, itemDtos, i + 1, t)

\* Mutant of execute: the retailer looked up after the order is built
executeCreateOrder_RetailerLast(dto, t) ==
    IF ~createOrderSchema(dto)
    THEN Execution(null, "ValidationError", << >>, "validateOrThrow", NoResponse)
    ELSE IF blank(dto.street)
    THEN Execution(null, "Error", << >>, "Address.create", NoResponse)
    ELSE IF blank(dto.customerId)
    THEN Execution(null, "Error", << >>, "Order.create", NoResponse)
    ELSE LET created == OrderCreate([items |-> << >>, status |-> "CREATED",
                                     notes |-> "undefined"], t)
             r == addItems(created, dto.items, 1, t)
         IN IF r.result # "ok"
            THEN Execution(null, r.result, << >>, "OrderItem.create", NoResponse)
            ELSE IF ~exists(dto.retailerId)
            THEN Execution(null, "NotFoundError", <<"exists">>, "execute", NoResponse)
            ELSE IF mapToResponse(r.order) = ResponseThrown
            THEN Execution(r.order, "Error", <<"exists", "create">>,
                           "mapToResponse", NoResponse)
            ELSE Execution(r.order, "ok", <<"exists", "create">>, "",
                           mapToResponse(r.order))

\* CreateOrderUseCase.execute(dto); t is the clock the execution reads.  The
\* order of the result is the one handed to orderRepository.create, null
\* when the execution does not get there.
executeCreateOrder(dto, t) ==
    IF ~createOrderSchema(dto)
    THEN Execution(null, "ValidationError", << >>, "validateOrThrow", NoResponse)
    ELSE IF ~exists(dto.retailerId)
    THEN Execution(null, "NotFoundError", <<"exists">>, "execute", NoResponse)
    ELSE IF blank(dto.street)
    THEN Execution(null, "Error", <<"exists">>, "Address.create", NoResponse)
    ELSE IF blank(dto.customerId)
    THEN Execution(null, "Error", <<"exists">>, "Order.create", NoResponse)
    ELSE LET created == OrderCreate([items |-> << >>, status |-> "CREATED",
                                     notes |-> "undefined"], t)
             r == addItems(created, dto.items, 1, t)
         IN IF r.result # "ok"
            THEN Execution(null, r.result, <<"exists">>, "OrderItem.create", NoResponse)
            ELSE IF mapToResponse(r.order) = ResponseThrown
            THEN Execution(r.order, "Error", <<"exists", "create">>,
                           "mapToResponse", NoResponse)
            ELSE Execution(r.order, "ok", <<"exists", "create">>, "",
                           mapToResponse(r.order))

\* No execution made yet
NoExecution ==
    [orderId |-> "", calls |-> << >>, thrownBy |-> "", response |-> NoResponse]

\* No function called yet, no execution in progress
NoValue == [value |-> "none"]
NoRuns == << >>

-----------------------------------------------------------------------------
(* Inputs *)

\* OrderProps.notes: string | undefined
NotesValues == {"undefined", "leave at the door"}

\* The items arrays handed to the factories: none, one line (priced in USD,
\* priced in EUR), two lines of different products, and two lines of the
\* same product (neither factory looks at the lines it is given).
InitialItemLists ==
    LET a == [productId |-> "prod-1", quantity |-> 1, unitPrice |-> unitPriceOf("prod-1")]
        b == [productId |-> "prod-2", quantity |-> 1, unitPrice |-> unitPriceOf("prod-2")]
        c == [productId |-> "prod-1", quantity |-> 2, unitPrice |-> unitPriceOf("prod-1")]
    IN {<< >>, <<a>>, <<b>>, <<a, b>>, <<a, c>>}

\* The productId arguments of removeItem and updateItemQuantity
ProductIdArgs == ProductIds \cup {"non-existent"}

\* The quantity arguments of updateItemQuantity
QuantityArgs == 0..MaxQty

NoItem == [productId |-> "", quantity |-> 0, unitPrice |-> [amount |-> 0, currency |-> ""]]

\* A recorded call: the method and its arguments (the unused ones blank)
Call(name, item, productId, quantity, target, notes) ==
    [name |-> name, item |-> item, productId |-> productId,
     quantity |-> quantity, target |-> target, notes |-> notes]

WithinBounds(o) == \A i \in 1..Len(o.items) : o.items[i].quantity <= MaxQty

\* The caller's view of one call: the object after it, the outcome, and the
\* clock, which has moved to the last read the method made (a method that
\* throws reads no clock).
Outcome(r, call, t) ==
    /\ WithinBounds(r.order)
    /\ r.result # "ok" => t = now
    /\ order' = r.order
    /\ lastResult' = r.result
    /\ lastOp' = call
    /\ now' = IF r.result = "ok" THEN t ELSE now
    /\ UNCHANGED <<probeVars, exec, returned, runs>>

-----------------------------------------------------------------------------
(* The life of one Order object *)

\* An order made by Order.create(props)
Init ==
    /\ now = 1
    /\ \E items \in InitialItemLists, st \in OrderStatusEnum, n \in NotesValues :
          /\ order = OrderCreate([items |-> items, status |-> st, notes |-> n], now)
          /\ lastOp = Call("create", NoItem, "", 0, st, n)
    /\ lastResult = "ok"
    /\ pFrom = "CREATED" /\ pTo = "CREATED" /\ pResult = "unset"
    /\ exec = NoExecution /\ returned = NoValue /\ runs = NoRuns

\* An order rebuilt by Order.reconstitute(props), in any status
InitReconstitute ==
    /\ now = 1
    /\ \E items \in InitialItemLists, st \in OrderStatusEnum, n \in NotesValues :
          /\ order = OrderReconstitute([items |-> items, status |-> st, notes |-> n], now)
          /\ lastOp = Call("reconstitute", NoItem, "", 0, st, n)
    /\ lastResult = "ok"
    /\ pFrom = "CREATED" /\ pTo = "CREATED" /\ pResult = "unset"
    /\ exec = NoExecution /\ returned = NoValue /\ runs = NoRuns

\* An order made by Order.create(props) with no items in the props
InitNoItems ==
    /\ now = 1
    /\ \E st \in OrderStatusEnum, n \in NotesValues :
          /\ order = OrderCreate([items |-> << >>, status |-> st, notes |-> n], now)
          /\ lastOp = Call("create", NoItem, "", 0, st, n)
    /\ lastResult = "ok"
    /\ pFrom = "CREATED" /\ pTo = "CREATED" /\ pResult = "unset"
    /\ exec = NoExecution /\ returned = NoValue /\ runs = NoRuns

AddItem(item) ==
    \E t \in now..MaxTime :
        Outcome(addItem(order, item, t),
                Call("addItem", item, item.productId, item.quantity, "", ""), t)

RemoveItem(productId) ==
    \E t \in now..MaxTime :
        Outcome(removeItem(order, productId, t),
                Call("removeItem", NoItem, productId, 0, "", ""), t)

UpdateItemQuantity(productId, quantity) ==
    \E t \in now..MaxTime :
        Outcome(updateItemQuantity(order, productId, quantity, t),
                Call("updateItemQuantity", NoItem, productId, quantity, "", ""), t)

Confirm ==
    \E t1 \in now..MaxTime : \E t2 \in t1..MaxTime :
        Outcome(confirm(order, t1, t2), Call("confirm", NoItem, "", 0, "", ""), t2)

Dispatch ==
    \E t1 \in now..MaxTime : \E t2 \in t1..MaxTime :
        Outcome(dispatch(order, t1, t2), Call("dispatch", NoItem, "", 0, "", ""), t2)

Deliver ==
    \E t1 \in now..MaxTime : \E t2 \in t1..MaxTime :
        Outcome(deliver(order, t1, t2), Call("deliver", NoItem, "", 0, "", ""), t2)

Cancel ==
    \E t1 \in now..MaxTime : \E t2 \in t1..MaxTime :
        Outcome(cancel(order, t1, t2), Call("cancel", NoItem, "", 0, "", ""), t2)

TransitionTo(targetStatusValue) ==
    \E t1 \in now..MaxTime : \E t2 \in t1..MaxTime :
        Outcome(transitionTo(order, targetStatusValue, t1, t2),
                Call("transitionTo", NoItem, "", 0, targetStatusValue, ""), t2)

UpdateNotes(notes) ==
    \E t \in now..MaxTime :
        Outcome(updateNotes(order, notes, t),
                Call("updateNotes", NoItem, "", 0, "", notes), t)

Next ==
    \/ \E item \in OrderItems : AddItem(item)
    \/ \E p \in ProductIdArgs : RemoveItem(p)
    \/ \E p \in ProductIdArgs, q \in QuantityArgs : UpdateItemQuantity(p, q)
    \/ Confirm
    \/ Dispatch
    \/ Deliver
    \/ Cancel
    \/ \E target \in RawStatusStrings : TransitionTo(target)
    \/ \E n \in NotesValues : UpdateNotes(n)

Spec == Init /\ [][Next]_vars

SpecReconstitute == InitReconstitute /\ [][Next]_vars

SpecNoItems == InitNoItems /\ [][Next]_vars

-----------------------------------------------------------------------------
(* Calls of UpdateOrderStatusUseCase.execute, one after the other, on a     *)
(* repository that holds one order in any status                            *)

\* One whole execution.  The clock moves to the last read the transition
\* made; an execution that throws before or in transitionTo reads no clock.
Execute(orderId, status) ==
    \E t1 \in now..MaxTime : \E t2 \in t1..MaxTime :
        LET e == execute(order, orderId, status, t1, t2) IN
        /\ "update" \notin {e.calls[i] : i \in 1..Len(e.calls)} => t2 = now
        /\ order' = e.order
        /\ lastResult' = e.result
        /\ lastOp' = Call("execute", NoItem, "", 0, status, "")
        /\ now' = t2
        /\ exec' = [orderId |-> orderId, calls |-> e.calls,
                    thrownBy |-> e.thrownBy, response |-> e.response]
        /\ UNCHANGED <<probeVars, returned, runs>>

NextUpdateStatus == \E orderId \in OrderIds, status \in RawStatusStrings : Execute(orderId, status)

SpecUpdateStatus == InitReconstitute /\ [][NextUpdateStatus]_vars

-----------------------------------------------------------------------------
(* Two executions of UpdateOrderStatusUseCase.execute on the stored order   *)
(* that overlap in time.  An execution gives way at each await: it loads    *)
(* the order and makes the transition on its copy, then the repository      *)
(* deletes the stored lines, then it writes the row and the projection is   *)
(* built.                                                                   *)

Requests == {1, 2}

IdleRun ==
    [pc |-> "idle", target |-> "", loaded |-> "", order |-> null,
     result |-> "", response |-> NoResponse]

InitOverlap ==
    /\ now = 1
    /\ \E items \in InitialItemLists, st \in OrderStatusEnum :
          /\ order = OrderReconstitute([items |-> items, status |-> st,
                                        notes |-> "undefined"], now)
          /\ lastOp = Call("reconstitute", NoItem, "", 0, st, "undefined")
    /\ lastResult = "ok"
    /\ pFrom = "CREATED" /\ pTo = "CREATED" /\ pResult = "unset"
    /\ exec = NoExecution /\ returned = NoValue
    /\ runs = [p \in Requests |-> IdleRun]

\* execute up to the call of orderRepository.update: validation, findById,
\* transitionTo on the loaded copy
Load(p, status) ==
    /\ runs[p].pc = "idle"
    /\ \E t1 \in now..MaxTime : \E t2 \in t1..MaxTime :
          LET found == findById(order, StoredId)
              r == transitionTo(found, status, t1, t2)
          IN /\ (~updateOrderStatusSchema(status) \/ r.result # "ok") => t2 = now
             /\ now' = t2
             /\ runs' = [runs EXCEPT ![p] =
                   IF ~updateOrderStatusSchema(status)
                   THEN [IdleRun EXCEPT !.pc = "done", !.target = status,
                                        !.result = "ValidationError"]
                   ELSE IF r.result # "ok"
                   THEN [IdleRun EXCEPT !.pc = "done", !.target = status,
                                        !.loaded = found.status, !.result = r.result]
                   ELSE [IdleRun EXCEPT !.pc = "loaded", !.target = status,
                                        !.loaded = found.status, !.order = r.order]]
    /\ UNCHANGED <<order, lastOp, lastResult, probeVars, exec, returned>>

\* The first statement of orderRepository.update reaches the database
DeleteMany(p) ==
    /\ runs[p].pc = "loaded"
    /\ order' = deleteMany(order)
    /\ runs' = [runs EXCEPT ![p].pc = "deleted"]
    /\ UNCHANGED <<now, lastOp, lastResult, probeVars, exec, returned>>

\* The second statement reaches the database; execute maps the row it
\* returns to the projection
OrderUpdate(p) ==
    /\ runs[p].pc = "deleted"
    /\ order' = orderUpdate(order, runs[p].order)
    /\ runs' = [runs EXCEPT ![p] =
          IF mapToResponse(order') = ResponseThrown
          THEN [@ EXCEPT !.pc = "done", !.result = "Error"]
          ELSE [@ EXCEPT !.pc = "done", !.result = "ok",
                         !.response = mapToResponse(order')]]
    /\ UNCHANGED <<now, lastOp, lastResult, probeVars, exec, returned>>

NextOverlap ==
    \/ \E p \in Requests, status \in RawStatusStrings : Load(p, status)
    \/ \E p \in Requests : DeleteMany(p)
    \/ \E p \in Requests : OrderUpdate(p)

SpecOverlap == InitOverlap /\ [][NextOverlap]_vars

-----------------------------------------------------------------------------
(* One call of CreateOrderUseCase.execute on any dto.  The variable order   *)
(* is the order the execution handed to orderRepository.create, null when  *)
(* it handed none.                                                          *)

\* execute has been called with a dto and has not run yet
InitCreateOrder ==
    /\ now = 1
    /\ order = null
    /\ \E dto \in CreateOrderDTOs : lastOp = [name |-> "CreateOrder.execute", dto |-> dto]
    /\ lastResult = "pending"
    /\ pFrom = "CREATED" /\ pTo = "CREATED" /\ pResult = "unset"
    /\ exec = NoExecution /\ returned = NoValue /\ runs = NoRuns

ExecuteCreateOrder ==
    /\ lastResult = "pending"
    /\ LET e == executeCreateOrder(lastOp.dto, now) IN
       /\ order' = e.order
       /\ lastResult' = e.result
       /\ exec' = [orderId |-> "", calls |-> e.calls,
                   thrownBy |-> e.thrownBy, response |-> e.response]
    /\ UNCHANGED <<now, lastOp, probeVars, returned, runs>>

NextCreateOrder == ExecuteCreateOrder

SpecCreateOrder == InitCreateOrder /\ [][NextCreateOrder]_vars

-----------------------------------------------------------------------------
(* ListOrders: the pagination of the order list. A pagination dto field is *)
(* << >> when it is absent and <<n>> when it is given as the number n. The *)
(* stored orders that match the filters are the rows 1..total.              *)

MaxPage == 4
MaxTotal == 6

PageInputs == {<< >>} \cup {<<n>> : n \in 0..MaxPage}
LimitInputs == {<< >>} \cup {<<n>> : n \in {0, 1, 2, 3, 100, 101}}
Totals == 0..MaxTotal \cup {100, 101}

\* part_006:65-70 paginationSchema: page is a positive integer, limit a
\* positive integer of at most 100
paginationSchema(dto) ==
    /\ dto.page # << >> => dto.page[1] > 0
    /\ dto.limit # << >> => dto.limit[1] > 0 /\ dto.limit[1] <= 100

\* The values the schema hands on: the defaults for the absent fields
validatedPagination(dto) ==
    [page  |-> IF dto.page = << >> THEN 1 ELSE dto.page[1],
     limit |-> IF dto.limit = << >> THEN 10 ELSE dto.limit[1]]

\* Math.ceil(total / limit)
ceil(total, limit) ==
    IF total % limit = 0 THEN total \div limit ELSE total \div limit + 1

findAll_FloorPages(total, pagination) ==
    LET page == IF pagination.page # 0 THEN pagination.page ELSE 1
        limit == IF pagination.limit # 0 THEN pagination.limit ELSE 10
    IN [orders |-> << >>, total |-> total, page |-> page, limit |-> limit,
        totalPages |-> total \div limit]

\* PrismaOrderRepository.findAll: the rows after the first (page - 1) * limit,
\* at most limit of them, and the count of all the rows
findAll(total, pagination) ==
    LET page == IF pagination.page # 0 THEN pagination.page ELSE 1
        limit == IF pagination.limit # 0 THEN pagination.limit ELSE 10
        skip == (page - 1) * limit
        take == IF total - skip < 0 THEN 0
                ELSE IF total - skip < limit THEN total - skip ELSE limit
    IN [orders |-> [i \in 1..take |-> skip + i], total |-> total,
        page |-> page, limit |-> limit, totalPages |-> ceil(total, limit)]

\* ListOrdersUseCase.execute: the pagination part of the projection
executeListOrders(total, dto) ==
    IF ~paginationSchema(dto) THEN [result |-> "ValidationError", value |-> NoValue]
    ELSE LET result == findAll(total, validatedPagination(dto))
         IN [result |-> "ok",
             value |-> [orders |-> result.orders,
                        page |-> result.page,
                        limit |-> result.limit,
                        total |-> result.total,
                        totalPages |-> result.totalPages,
                        hasNext |-> result.page < result.totalPages,
                        hasPrevious |-> result.page > 1]]

\* execute has been called with a pagination dto over total stored orders
InitListOrders ==
    /\ now = 1
    /\ order = null
    /\ \E page \in PageInputs, limit \in LimitInputs, total \in Totals :
          lastOp = [name |-> "ListOrders.execute", total |-> total,
                    dto |-> [page |-> page, limit |-> limit]]
    /\ lastResult = "pending"
    /\ pFrom = "CREATED" /\ pTo = "CREATED" /\ pResult = "unset"
    /\ exec = NoExecution /\ returned = NoValue /\ runs = NoRuns

ExecuteListOrders ==
    /\ lastResult = "pending"
    /\ LET e == executeListOrders(lastOp.total, lastOp.dto) IN
       /\ lastResult' = e.result
       /\ returned' = e.value
    /\ UNCHANGED <<order, now, lastOp, probeVars, exec, runs>>

NextListOrders == ExecuteListOrders

SpecListOrders == InitListOrders /\ [][NextListOrders]_vars

-----------------------------------------------------------------------------
(* Serialization: Order.toJSON and the rebuilding of an order from the      *)
(* serialized field values.  A Date is serialized to its ISO string, which  *)
(* names the same millisecond; an unset Date is left out of the object.     *)

JSONThrown == [status |-> "Error"]

\* Date.prototype.toISOString
toISOString(d) == [iso |-> d]

\* this._confirmedAt?.toISOString()
optionalISOString(d) == IF d = undefined THEN NoValue ELSE toISOString(d)

\* new Date(isoString)
Date(s) == s.iso

\* Money.toJSON
MoneyToJSON(m) == [amount |-> m.amount, currency |-> m.currency]

\* OrderItem.toJSON (get totalPrice multiplies by a quantity that is never
\* negative, so it returns)
OrderItemToJSON(item) ==
    [productId  |-> item.productId,
     quantity   |-> item.quantity,
     unitPrice  |-> MoneyToJSON(item.unitPrice),
     totalPrice |-> MoneyToJSON(totalPrice(item))]

\* Order.toJSON: the object it returns, or JSONThrown when the totalAmount
\* getter it reads throws
toJSON(o) ==
    IF totalAmount(o) = MoneyThrown THEN JSONThrown
    ELSE [items        |-> [i \in 1..Len(o.items) |-> OrderItemToJSON(o.items[i])],
          itemCount    |-> Len(o.items),
          status       |-> o.status,
          totalAmount  |-> MoneyToJSON(totalAmount(o)),
          notes        |-> o.notes,
          createdAt    |-> toISOString(o.createdAt),
          updatedAt    |-> toISOString(o.updatedAt),
          confirmedAt  |-> optionalISOString(o.confirmedAt),
          dispatchedAt |-> optionalISOString(o.dispatchedAt),
          deliveredAt  |-> optionalISOString(o.deliveredAt),
          cancelledAt  |-> optionalISOString(o.cancelledAt),
          identity     |-> o.identity]

\* OrderItem.reconstitute over the serialized fields of one line, the price
\* rebuilt with Money.create
OrderItemReconstitute(json) ==
    [productId |-> json.productId,
     quantity  |-> json.quantity,
     unitPrice |-> MoneyCreate(json.unitPrice.amount, json.unitPrice.currency)]

\* An optional Date prop from its serialized field
optionalDate(s) == IF s = NoValue THEN undefined ELSE Date(s)

\* Order.reconstitute over the serialized fields: the private constructor
\* with the status rebuilt by OrderStatus.create and the dates by new Date
\* (createdAt and updatedAt fall back to the clock t when unset)
reconstituteFromJSON(json, t) ==
    LET createdAt == Date(json.createdAt)
        updatedAt == Date(json.updatedAt)
    IN [status       |-> OrderStatusCreate(json.status),
        items        |-> [i \in 1..Len(json.items) |-> OrderItemReconstitute(json.items[i])],
        notes        |-> json.notes,
        createdAt    |-> IF createdAt # undefined THEN createdAt ELSE t,
        updatedAt    |-> IF updatedAt # undefined THEN updatedAt ELSE t,
        confirmedAt  |-> optionalDate(json.confirmedAt),
        dispatchedAt |-> optionalDate(json.dispatchedAt),
        deliveredAt  |-> optionalDate(json.deliveredAt),
        cancelledAt  |-> optionalDate(json.cancelledAt),
        identity     |-> json.identity]

-----------------------------------------------------------------------------
(* Money: the values obtainable from the value object's operations.        *)
(* runs holds two Money values obtained so far, the first the receiver and  *)
(* the second the argument of the next call; a Money a call returns takes  *)
(* the place of either.                                                     *)

MaxAmount == 3

Currencies == {"USD", "EUR"}
AmountArgs == -1..MaxAmount
Factors == -1..2

NoMoney == [amount |-> 0, currency |-> ""]

MoneyCall(name, amount, currency, factor) ==
    [name |-> name, this |-> runs[1], other |-> runs[2],
     amount |-> amount, currency |-> currency, factor |-> factor]

\* A call that returns a Money or throws
MoneyOutcome(r, call) ==
    /\ r.amount <= MaxAmount
    /\ lastOp' = call
    /\ lastResult' = IF r = MoneyThrown THEN "Error" ELSE "ok"
    /\ returned' = IF r = MoneyThrown THEN NoValue ELSE r
    /\ IF r = MoneyThrown THEN runs' = runs
       ELSE \E k \in 1..2 : runs' = [runs EXCEPT ![k] = r]
    /\ UNCHANGED <<order, now, probeVars, exec>>

\* A call that returns a boolean or throws
CompareOutcome(r, call) ==
    /\ lastOp' = call
    /\ lastResult' = IF r = CompareThrown THEN "Error" ELSE "ok"
    /\ returned' = IF r = CompareThrown THEN NoValue ELSE r
    /\ UNCHANGED <<order, now, probeVars, exec, runs>>

\* Two values from Money.zero()
InitMoney ==
    /\ now = 1
    /\ order = null
    /\ lastOp = [name |-> "zero", this |-> NoMoney, other |-> NoMoney,
                 amount |-> 0, currency |-> "USD", factor |-> 0]
    /\ lastResult = "ok"
    /\ pFrom = "CREATED" /\ pTo = "CREATED" /\ pResult = "unset"
    /\ exec = NoExecution /\ returned = MoneyZero /\ runs = <<MoneyZero, MoneyZero>>

Create(amount, currency) ==
    MoneyOutcome(MoneyCreate(amount, currency), MoneyCall("create", amount, currency, 0))

Zero(currency) ==
    MoneyOutcome(zero(currency), MoneyCall("zero", 0, currency, 0))

Add == MoneyOutcome(MoneyAdd(runs[1], runs[2]), MoneyCall("add", 0, "", 0))

Subtract == MoneyOutcome(MoneySubtract(runs[1], runs[2]), MoneyCall("subtract", 0, "", 0))

Multiply(factor) ==
    MoneyOutcome(MoneyMultiply(runs[1], factor), MoneyCall("multiply", 0, "", factor))

Equals == CompareOutcome(MoneyEquals(runs[1], runs[2]), MoneyCall("equals", 0, "", 0))

GreaterThan ==
    CompareOutcome(MoneyGreaterThan(runs[1], runs[2]), MoneyCall("greaterThan", 0, "", 0))

LessThan ==
    CompareOutcome(MoneyLessThan(runs[1], runs[2]), MoneyCall("lessThan", 0, "", 0))

NextMoney ==
    \/ \E amount \in AmountArgs, currency \in Currencies : Create(amount, currency)
    \/ \E currency \in Currencies : Zero(currency)
    \/ Add
    \/ Subtract
    \/ \E factor \in Factors : Multiply(factor)
    \/ Equals
    \/ GreaterThan
    \/ LessThan

SpecMoney == InitMoney /\ [][NextMoney]_vars

-----------------------------------------------------------------------------
(* Order numbers: Order.create called twice with no orderNumber in the      *)
(* props.  A draw of Math.random() is the sequence of the base-36 digits    *)
(* after the point of its toString(36); returned holds, for each order      *)
(* created so far, its number and the clock and the draw it was made from.  *)

MaxDigits == 5

Digits36 == {"0", "Z"}

RECURSIVE DigitStrings(_)
DigitStrings(n) ==
    IF n = 0 THEN {<< >>}
    ELSE DigitStrings(n - 1) \cup
         {Append(s, d) : s \in {x \in DigitStrings(n - 1) : Len(x) = n - 1}, d \in Digits36}

\* The draws of Math.random(), by their digits
RandomDraws == DigitStrings(MaxDigits)

\* Number.prototype.toString(36) of a non-negative integer, upper-cased:
\* its base-36 digits, the most significant first
RECURSIVE toString36(_)
toString36(n) ==
    IF n < 36 THEN <<n>> ELSE Append(toString36(n \div 36), n % 36)

\* String.prototype.substring(2, 6) of "0." followed by the digits
substring(digits) ==
    IF Len(digits) <= 4 THEN digits ELSE SubSeq(digits, 1, 4)

generateOrderNumber_RandomOnly(t, random) ==
    <<"ORD", << >>, substring(random)>>

\* Order.generateOrderNumber: `ORD-${timestamp}-${random}`, as its three
\* parts (none of them holds a '-')
generateOrderNumber(t, random) ==
    <<"ORD", toString36(t), substring(random)>>

NoOrders == [numbers |-> << >>, timestamps |-> << >>, randoms |-> << >>]

\* No order has been made
InitOrderNumbers ==
    /\ now = 1
    /\ order = null
    /\ lastOp = [name |-> "none", random |-> << >>]
    /\ lastResult = "ok"
    /\ pFrom = "CREATED" /\ pTo = "CREATED" /\ pResult = "unset"
    /\ exec = NoExecution /\ returned = NoOrders /\ runs = NoRuns

\* Order.create(props) with no orderNumber and no items, at the clock t with
\* the draw random
CreateNumbered(t, random) ==
    /\ Len(returned.numbers) < 2
    /\ t >= now
    /\ now' = t
    /\ order' = OrderCreate([items |-> << >>, status |-> "CREATED", notes |-> "undefined"], t)
    /\ lastOp' = [name |-> "create", random |-> random]
    /\ lastResult' = "ok"
    /\ returned' = [numbers    |-> Append(returned.numbers, generateOrderNumber(t, random)),
                    timestamps |-> Append(returned.timestamps, t),
                    randoms    |-> Append(returned.randoms, random)]
    /\ UNCHANGED <<probeVars, exec, runs>>

NextOrderNumbers == \E t \in 1..MaxTime, random \in RandomDraws : CreateNumbered(t, random)

SpecOrderNumbers == InitOrderNumbers /\ [][NextOrderNumbers]_vars

-----------------------------------------------------------------------------
(* Items with ids: addItem on an order whose lines, and the items added,    *)
(* may carry an id (the lines a stored order is rebuilt with do, the items  *)
(* OrderItem.create makes from a dto do not).                               *)

\* OrderItemProps.id: string | undefined
ItemIds == {"undefined", "item-1", "item-2"}

\* The OrderItem objects with an id prop, of quantity 1
IdentifiedItems ==
    {[id |-> id, productId |-> p, quantity |-> 1, unitPrice |-> unitPriceOf(p)] :
        id \in ItemIds, p \in ProductIds}

\* The items arrays of the props: no line, one line, two lines
IdentifiedItemLists ==
    {<< >>} \cup {<<a>> : a \in IdentifiedItems}
            \cup {<<a, b>> : a \in IdentifiedItems, b \in IdentifiedItems}

\* Order.create(props) with lines that may carry ids
InitItemIds ==
    /\ now = 1
    /\ \E items \in IdentifiedItemLists :
          order = OrderCreate([items |-> items, status |-> "CREATED", notes |-> "undefined"], now)
    /\ lastOp = Call("create", NoItem, "", 0, "CREATED", "undefined")
    /\ lastResult = "ok"
    /\ pFrom = "CREATED" /\ pTo = "CREATED" /\ pResult = "unset"
    /\ exec = NoExecution /\ returned = NoValue /\ runs = NoRuns

NextItemIds == \E item \in IdentifiedItems : AddItem(item)

SpecItemIds == InitItemIds /\ [][NextItemIds]_vars

-----------------------------------------------------------------------------
(* References to lines.  An OrderItem is an object: the constructor keeps   *)
(* the items array of the props as it is, addItem pushes the object it is   *)
(* handed, and the items getter copies the array and not the objects in it. *)
(* returned holds the one OrderItem reference the caller has kept: line is  *)
(* k when the object is line k of the order, and 0 when the object is no    *)
(* line of the order, quantity then being the object's own quantity.        *)

NoReference == [line |-> -1, quantity |-> 0]
LineReference(k) == [line |-> k, quantity |-> 0]
ObjectReference(q) == [line |-> 0, quantity |-> q]

\* A call on the order after which the caller holds the reference ref
ReferenceOutcome(r, call, t, ref) ==
    /\ WithinBounds(r.order)
    /\ r.result # "ok" => t = now
    /\ order' = r.order
    /\ lastResult' = r.result
    /\ lastOp' = call
    /\ now' = IF r.result = "ok" THEN t ELSE now
    /\ returned' = ref
    /\ UNCHANGED <<probeVars, exec, runs>>

\* Order.create(props): the caller keeps one of the objects of props.items,
\* or none
InitReferences ==
    /\ now = 1
    /\ \E items \in InitialItemLists :
          /\ order = OrderCreate([items |-> items, status |-> "CREATED", notes |-> "undefined"], now)
          /\ returned \in {NoReference} \cup {LineReference(k) : k \in 1..Len(items)}
    /\ lastOp = Call("create", NoItem, "", 0, "CREATED", "undefined")
    /\ lastResult = "ok"
    /\ pFrom = "CREATED" /\ pTo = "CREATED" /\ pResult = "unset"
    /\ exec = NoExecution /\ runs = NoRuns

\* order.addItem(item), the caller keeping item: the object is the new last
\* line when addItem pushed it, and no line when addItem merged its quantity
\* into a line or threw
AddItemKept(item) ==
    \E t \in now..MaxTime :
        LET r == addItem(order, item, t) IN
        ReferenceOutcome(r, Call("addItem", item, item.productId, item.quantity, "", ""), t,
                         IF r.result = "ok" /\ ~(\E i \in 1..Len(order.items) :
                                                    order.items[i].productId = item.productId)
                         THEN LineReference(Len(order.items) + 1)
                         ELSE ObjectReference(item.quantity))

\* order.items[k - 1]: the getter's copy of the array holds the line objects
ItemsGetter(k) ==
    /\ k \in 1..Len(order.items)
    /\ returned' = LineReference(k)
    /\ lastOp' = Call("items", NoItem, order.items[k].productId, 0, "", "")
    /\ lastResult' = "ok"
    /\ UNCHANGED <<order, now, probeVars, exec, runs>>

\* order.removeItem(productId): the object spliced out is no line any more,
\* the lines after it move up
RemoveItemHeld(productId) ==
    \E t \in now..MaxTime :
        LET r == removeItem(order, productId, t)
            index == findIndex(order.items, productId)
        IN ReferenceOutcome(r, Call("removeItem", NoItem, productId, 0, "", ""), t,
                            IF r.result # "ok" \/ returned.line <= 0 \/ returned.line < index
                            THEN returned
                            ELSE IF returned.line = index
                                 THEN ObjectReference(order.items[index].quantity)
                                 ELSE LineReference(returned.line - 1))

\* item.updateQuantity(quantity) on the reference the caller holds
HeldUpdateQuantity(quantity) ==
    /\ returned # NoReference
    /\ lastOp' = Call("OrderItem.updateQuantity", NoItem, "", quantity, "", "")
    /\ IF ~QuantityValid(quantity)
       THEN lastResult' = "Error" /\ UNCHANGED <<order, returned>>
       ELSE /\ lastResult' = "ok"
            /\ IF returned.line > 0
               THEN /\ order' = [order EXCEPT !.items[returned.line] = updateQuantity(@, quantity)]
                    /\ UNCHANGED returned
               ELSE /\ returned' = ObjectReference(quantity)
                    /\ UNCHANGED order
    /\ UNCHANGED <<now, probeVars, exec, runs>>

NextReferences ==
    \/ \E item \in OrderItems : AddItemKept(item)
    \/ \E k \in 1..MaxItems : ItemsGetter(k)
    \/ \E p \in ProductIdArgs : RemoveItemHeld(p)
    \/ \E q \in QuantityArgs : HeldUpdateQuantity(q)
    \/ \E p \in ProductIdArgs, q \in QuantityArgs : UpdateItemQuantity(p, q)
    \/ Confirm
    \/ Dispatch
    \/ Deliver
    \/ Cancel

SpecReferences == InitReferences /\ [][NextReferences]_vars

-----------------------------------------------------------------------------
(* The status history of one order: runs holds the statuses the order has   *)
(* had, in the order in which it entered them.                              *)

MaxHistory == 5

\* A call on the order; a change of the status is added to the history
HistoryOutcome(r, call, t) ==
    /\ WithinBounds(r.order)
    /\ Len(runs) < MaxHistory
    /\ r.result # "ok" => t = now
    /\ order' = r.order
    /\ lastResult' = r.result
    /\ lastOp' = call
    /\ now' = IF r.result = "ok" THEN t ELSE now
    /\ runs' = IF r.order.status # order.status THEN Append(runs, r.order.status) ELSE runs
    /\ UNCHANGED <<probeVars, exec, returned>>

\* An order made by Order.create(props)
InitHistory ==
    /\ now = 1
    /\ \E items \in InitialItemLists :
          order = OrderCreate([items |-> items, status |-> "CREATED", notes |-> "undefined"], now)
    /\ lastOp = Call("create", NoItem, "", 0, "CREATED", "undefined")
    /\ lastResult = "ok"
    /\ pFrom = "CREATED" /\ pTo = "CREATED" /\ pResult = "unset"
    /\ exec = NoExecution /\ returned = NoValue /\ runs = <<order.status>>

HistoryAddItem(item) ==
    \E t \in now..MaxTime :
        HistoryOutcome(addItem(order, item, t),
                       Call("addItem", item, item.productId, item.quantity, "", ""), t)

HistoryRemoveItem(productId) ==
    \E t \in now..MaxTime :
        HistoryOutcome(removeItem(order, productId, t),
                       Call("removeItem", NoItem, productId, 0, "", ""), t)

HistoryConfirm ==
    \E t1 \in now..MaxTime : \E t2 \in t1..MaxTime :
        HistoryOutcome(confirm(order, t1, t2), Call("confirm", NoItem, "", 0, "", ""), t2)

HistoryDispatch ==
    \E t1 \in now..MaxTime : \E t2 \in t1..MaxTime :
        HistoryOutcome(dispatch(order, t1, t2), Call("dispatch", NoItem, "", 0, "", ""), t2)

HistoryDeliver ==
    \E t1 \in now..MaxTime : \E t2 \in t1..MaxTime :
        HistoryOutcome(deliver(order, t1, t2), Call("deliver", NoItem, "", 0, "", ""), t2)

HistoryCancel ==
    \E t1 \in now..MaxTime : \E t2 \in t1..MaxTime :
        HistoryOutcome(cancel(order, t1, t2), Call("cancel", NoItem, "", 0, "", ""), t2)

HistoryTransitionTo(targetStatusValue) ==
    \E t1 \in now..MaxTime : \E t2 \in t1..MaxTime :
        HistoryOutcome(transitionTo(order, targetStatusValue, t1, t2),
                       Call("transitionTo", NoItem, "", 0, targetStatusValue, ""), t2)

NextHistory ==
    \/ \E item \in OrderItems : HistoryAddItem(item)
    \/ \E p \in ProductIdArgs : HistoryRemoveItem(p)
    \/ HistoryConfirm
    \/ HistoryDispatch
    \/ HistoryDeliver
    \/ HistoryCancel
    \/ \E target \in RawStatusStrings : HistoryTransitionTo(target)

SpecHistory == InitHistory /\ [][NextHistory]_vars

-----------------------------------------------------------------------------
(* Reads of the stored order while orderRepository.update is under way.     *)
(* The stored order starts as the aggregate leaves an order: with a line    *)
(* when it is CONFIRMED, DISPATCHED or DELIVERED.  update is two statements *)
(* sent one after the other, with no transaction around them, and the       *)
(* second may be refused by the database.                                   *)

InitStored ==
    /\ now = 1
    /\ \E items \in InitialItemLists, st \in OrderStatusEnum :
          /\ st \in {"CONFIRMED", "DISPATCHED", "DELIVERED"} => Len(items) > 0
          /\ order = OrderReconstitute([items |-> items, status |-> st,
                                        notes |-> "undefined"], now)
          /\ lastOp = Call("reconstitute", NoItem, "", 0, st, "undefined")
    /\ lastResult = "ok"
    /\ pFrom = "CREATED" /\ pTo = "CREATED" /\ pResult = "unset"
    /\ exec = NoExecution /\ returned = NoValue
    /\ runs = [p \in Requests |-> IdleRun]

\* orderRepository.findById(StoredId) by another reader: the row and its
\* lines as they are stored at that moment
FindById ==
    /\ returned' = findById(order, StoredId)
    /\ lastOp' = Call("findById", NoItem, "", 0, "", "")
    /\ UNCHANGED <<order, now, lastResult, probeVars, exec, runs>>

\* prisma.order.update rejects (connection lost, row gone): update throws
\* after deleteMany has been applied
OrderUpdateFails(p) ==
    /\ runs[p].pc = "deleted"
    /\ runs' = [runs EXCEPT ![p] = [@ EXCEPT !.pc = "done", !.result = "Error"]]
    /\ UNCHANGED <<order, now, lastOp, lastResult, probeVars, exec, returned>>

NextStored ==
    \/ \E p \in Requests, status \in RawStatusStrings : Load(p, status)
    \/ \E p \in Requests : DeleteMany(p)
    \/ \E p \in Requests : OrderUpdate(p)
    \/ \E p \in Requests : OrderUpdateFails(p)
    \/ FindById

SpecStored == InitStored /\ [][NextStored]_vars

-----------------------------------------------------------------------------
(* OrderController: one request of updateStatus, addItem or removeItem by   *)
(* an authenticated user on the stored order, which belongs to the retailer *)
(* of its identity fields.  exec.calls lists the use cases the controller   *)
(* called.                                                                  *)

Roles == {"ADMIN", "RETAILER"}

\* req.user.retailerId: the order's retailer, another one, or none
UserRetailerIds == {"uuid-known", "uuid-other", "undefined"}

Users == [role : Roles, retailerId : UserRetailerIds]

\* GetOrderUseCase.execute(orderId): the projection (its retailerId), or the
\* error thrown
getOrderExecute(stored, orderId) ==
    LET found == findById(stored, orderId) IN
    IF found = null THEN [result |-> "NotFoundError", retailerId |-> ""]
    ELSE IF mapToResponse(found) = ResponseThrown THEN [result |-> "Error", retailerId |-> ""]
    ELSE [result |-> "ok", retailerId |-> found.identity.retailerId]

\* AddOrderItemUseCase.execute(orderId, item): load, addItem, persist, project
executeAddOrderItem(stored, orderId, item, t) ==
    LET found == findById(stored, orderId) IN
    IF found = null
    THEN Execution(stored, "NotFoundError", <<"findById">>, "execute", NoResponse)
    ELSE LET r == addItem(found, item, t) IN
         IF r.result # "ok"
         THEN Execution(stored, r.result, <<"findById">>, "addItem", NoResponse)
         ELSE LET updatedOrder == update(stored, r.order) IN
              IF mapToResponse(updatedOrder) = ResponseThrown
              THEN Execution(updatedOrder, "Error", <<"findById", "update">>,
                             "mapToResponse", NoResponse)
              ELSE Execution(updatedOrder, "ok", <<"findById", "update">>, "",
                             mapToResponse(updatedOrder))

\* RemoveOrderItemUseCase.execute(orderId, productId): load, removeItem,
\* persist, project
executeRemoveOrderItem(stored, orderId, productId, t) ==
    LET found == findById(stored, orderId) IN
    IF found = null
    THEN Execution(stored, "NotFoundError", <<"findById">>, "execute", NoResponse)
    ELSE LET r == removeItem(found, productId, t) IN
         IF r.result # "ok"
         THEN Execution(stored, r.result, <<"findById">>, "removeItem", NoResponse)
         ELSE LET updatedOrder == update(stored, r.order) IN
              IF mapToResponse(updatedOrder) = ResponseThrown
              THEN Execution(updatedOrder, "Error", <<"findById", "update">>,
                             "mapToResponse", NoResponse)
              ELSE Execution(updatedOrder, "ok", <<"findById", "update">>, "",
                             mapToResponse(updatedOrder))

\* The body of updateStatus, addItem and removeItem: the order is fetched
\* with GetOrderUseCase, a RETAILER user of another retailer is refused, and
\* then the mutating use case runs; e is what that use case does
handle(stored, user, orderId, e, useCase) ==
    LET existingOrder == getOrderExecute(stored, orderId) IN
    IF existingOrder.result # "ok"
    THEN Execution(stored, existingOrder.result, <<"getOrderUseCase">>,
                   "getOrderUseCase", NoResponse)
    ELSE IF user.role = "RETAILER" /\ existingOrder.retailerId # user.retailerId
    THEN Execution(stored, "ForbiddenError", <<"getOrderUseCase">>, "controller", NoResponse)
    ELSE Execution(e.order, e.result, <<"getOrderUseCase", useCase>>, e.thrownBy, e.response)

\* The requests: the controller method, the user, the id of the path and
\* the body or path argument
Requested(method, user, orderId, status, item, productId) ==
    [name |-> method, user |-> user, orderId |-> orderId,
     status |-> status, item |-> item, productId |-> productId]

AccessRequests ==
    {Requested("updateStatus", u, id, s, NoItem, "") :
        u \in Users, id \in OrderIds, s \in RawStatusStrings}
    \cup {Requested("addItem", u, id, "", item, "") :
        u \in Users, id \in OrderIds, item \in OrderItems}
    \cup {Requested("removeItem", u, id, "", NoItem, p) :
        u \in Users, id \in OrderIds, p \in ProductIdArgs}

\* A stored order and a request that has not been handled yet
InitAccess ==
    /\ now = 1
    /\ \E items \in InitialItemLists, st \in OrderStatusEnum :
          order = OrderReconstitute([items |-> items, status |-> st, notes |-> "undefined"], now)
    /\ lastOp \in AccessRequests
    /\ lastResult = "pending"
    /\ pFrom = "CREATED" /\ pTo = "CREATED" /\ pResult = "unset"
    /\ exec = NoExecution /\ returned = NoValue /\ runs = NoRuns

\* The request has been handled
Handled(h) ==
    /\ lastResult = "pending"
    /\ order' = h.order
    /\ lastResult' = h.result
    /\ exec' = [orderId |-> lastOp.orderId, calls |-> h.calls,
                thrownBy |-> h.thrownBy, response |-> h.response]
    /\ UNCHANGED <<now, lastOp, probeVars, returned, runs>>

ControllerUpdateStatus ==
    /\ lastOp.name = "updateStatus"
    /\ Handled(handle(order, lastOp.user, lastOp.orderId,
                      execute(order, lastOp.orderId, lastOp.status, now, now),
                      "updateOrderStatusUseCase"))

ControllerAddItem ==
    /\ lastOp.name = "addItem"
    /\ Handled(handle(order, lastOp.user, lastOp.orderId,
                      executeAddOrderItem(order, lastOp.orderId, lastOp.item, now),
                      "addOrderItemUseCase"))

ControllerRemoveItem ==
    /\ lastOp.name = "removeItem"
    /\ Handled(handle(order, lastOp.user, lastOp.orderId,
                      executeRemoveOrderItem(order, lastOp.orderId, lastOp.productId, now),
                      "removeOrderItemUseCase"))

NextAccess ==
    \/ ControllerUpdateStatus
    \/ ControllerAddItem
    \/ ControllerRemoveItem

SpecAccess == InitAccess /\ [][NextAccess]_vars

-----------------------------------------------------------------------------
(* The lifecycle scenario: one script of calls on an order made with no     *)
(* items: confirm, addItem, confirm, dispatch, cancel, deliver, and then    *)
(* transitionTo any number of times.                                        *)

\* How many calls of the script have been made (the two confirm calls are
\* told apart by the lines: the first is made before any line is added)
ScenarioPosition ==
    CASE lastOp.name = "create"   -> 0
      [] lastOp.name = "confirm" /\ Len(order.items) = 0 -> 1
      [] lastOp.name = "addItem"  -> 2
      [] lastOp.name = "confirm" /\ Len(order.items) # 0 -> 3
      [] lastOp.name = "dispatch" -> 4
      [] lastOp.name = "cancel"   -> 5
      [] lastOp.name = "deliver"  -> 6
      [] OTHER                    -> 7

NextScenario ==
    \/ ScenarioPosition \in {0, 2} /\ Confirm
    \/ ScenarioPosition = 1 /\ \E item \in OrderItems : AddItem(item)
    \/ ScenarioPosition = 3 /\ Dispatch
    \/ ScenarioPosition = 4 /\ Cancel
    \/ ScenarioPosition = 5 /\ Deliver
    \/ ScenarioPosition \in {6, 7} /\ \E target \in RawStatusStrings : TransitionTo(target)

SpecScenario == InitNoItems /\ [][NextScenario]_vars

-----------------------------------------------------------------------------
(* OrderStatus on its own: canTransitionTo on two statuses that             *)
(* OrderStatus.create built from raw strings                                *)

InitStatus ==
    /\ now = 1
    /\ order = OrderCreate([items |-> << >>, status |-> "CREATED", notes |-> "undefined"], now)
    /\ lastOp = Call("create", NoItem, "", 0, "CREATED", "undefined")
    /\ lastResult = "ok"
    /\ pFrom \in RawStatusStrings
    /\ pTo \in RawStatusStrings
    /\ pResult = "unset"
    /\ exec = NoExecution /\ returned = NoValue /\ runs = NoRuns

CanTransitionTo ==
    /\ pResult = "unset"
    /\ pResult' =
          IF ~OrderStatusCreateOk(pFrom) \/ ~OrderStatusCreateOk(pTo) THEN "Error"
          ELSE IF canTransitionTo(OrderStatusCreate(pFrom), OrderStatusCreate(pTo))
               THEN "true" ELSE "false"
    /\ UNCHANGED <<orderVars, pFrom, pTo, exec, returned, runs>>

NextStatus == CanTransitionTo

SpecStatus == InitStatus /\ [][NextStatus]_vars

-----------------------------------------------------------------------------
(* The claims.  What a claim says is written out here in its own terms: the *)
(* transition table as the specification prints it, the statuses by name.   *)

\* The transition table of the specification, section 4.1
TableRow(s) ==
    CASE s = "CREATED"    -> {"CONFIRMED", "CANCELLED"}
      [] s = "CONFIRMED"  -> {"DISPATCHED", "CANCELLED"}
      [] s = "DISPATCHED" -> {"DELIVERED"}
      [] s = "DELIVERED"  -> {}
      [] s = "CANCELLED"  -> {}

FiveStatuses == {"CREATED", "CONFIRMED", "DISPATCHED", "DELIVERED", "CANCELLED"}

\* The pairs the claim lists as allowed
ListedPairs ==
    {<<"CREATED", "CONFIRMED">>, <<"CREATED", "CANCELLED">>,
     <<"CONFIRMED", "DISPATCHED">>, <<"CONFIRMED", "CANCELLED">>,
     <<"DISPATCHED", "DELIVERED">>}

\* The raw strings of the model that name no status in any letter case
NamesNoStatus == {"SHIPPED", ""}

\* The status a raw string names, letter case aside
Named(raw) == IF raw = "confirmed" THEN "CONFIRMED" ELSE raw

\* The probe has run on two statuses
Probed == pResult \in {"true", "false"}

\* The pairs of statuses on which canTransitionTo answers true / false
TruePairs == {pr \in FiveStatuses \X FiveStatuses : canTransitionTo(pr[1], pr[2])}
FalsePairs == {pr \in FiveStatuses \X FiveStatuses : ~canTransitionTo(pr[1], pr[2])}

\* C1 as stated: canTransitionTo is true exactly on the listed pairs, which
\* are six, and false on the 19 other pairs of the 25.
C1_SixTruePairs ==
    Probed =>
        /\ (pResult = "true") <=> (<<Named(pFrom), Named(pTo)>> \in ListedPairs)
        /\ Cardinality(TruePairs) = 6
        /\ Cardinality(FalsePairs) = 19

\* C1 amended: for every ordered pair of the five statuses canTransitionTo is
\* true exactly on the five listed pairs CREATED->CONFIRMED,
\* CREATED->CANCELLED, CONFIRMED->DISPATCHED, CONFIRMED->CANCELLED and
\* DISPATCHED->DELIVERED, and false on the 20 other pairs, every pair with
\* from = to among them.
C1_FiveTruePairs ==
    /\ pResult # "unset" =>
          (pResult = "Error") <=> (pFrom \in NamesNoStatus \/ pTo \in NamesNoStatus)
    /\ Probed =>
          /\ (pResult = "true") <=> (<<Named(pFrom), Named(pTo)>> \in ListedPairs)
          /\ Named(pFrom) = Named(pTo) => pResult = "false"
          /\ Cardinality(TruePairs) = 5
          /\ Cardinality(FalsePairs) = 20

C1_Witness == pFrom = "DISPATCHED" /\ pTo = "DELIVERED" /\ pResult = "true"

\* The place of a status along the lifecycle, CANCELLED after all others
StepRank(s) ==
    CASE s = "CREATED" -> 0 [] s = "CONFIRMED" -> 1 [] s = "DISPATCHED" -> 2
      [] s = "DELIVERED" -> 3 [] s = "CANCELLED" -> 4

\* C2: every change of the status of an order made by Order.create goes from
\* a status to a status in its row of the transition table: never backward,
\* never over a step.
C2_StatusFollowsTable ==
    [][order'.status # order.status =>
          /\ order'.status \in TableRow(order.status)
          /\ StepRank(order'.status) > StepRank(order.status)
          /\ order'.status # "CANCELLED" =>
                StepRank(order'.status) = StepRank(order.status) + 1]_vars

C2_Witness ==
    /\ lastOp.name = "transitionTo" /\ lastResult = "ok"
    /\ order.status = "DELIVERED" /\ order.deliveredAt # undefined

\* C3: an order made by Order.create that is CONFIRMED, DISPATCHED or
\* DELIVERED has at least one item.
C3_ConfirmedHasItems ==
    order.status \in {"CONFIRMED", "DISPATCHED", "DELIVERED"} => Len(order.items) >= 1

C3_Witness ==
    /\ order.status = "DISPATCHED" /\ Len(order.items) = 1
    /\ lastOp.name = "dispatch" /\ lastResult = "ok"

C5_CancelOnlyFromCreatedOrConfirmed ==
    [][lastOp'.name = "cancel" =>
          IF order.status \in {"CREATED", "CONFIRMED"}
          THEN /\ lastResult' = "ok"
               /\ order'.status = "CANCELLED"
               /\ order'.cancelledAt # undefined
               /\ order'.cancelledAt \in now..now'
          ELSE /\ lastResult' = "BusinessRuleViolationError"
               /\ order'.status = order.status
               /\ order'.cancelledAt = order.cancelledAt]_vars

C5_Witness ==
    /\ lastOp.name = "cancel" /\ lastResult = "BusinessRuleViolationError"
    /\ order.status = "DISPATCHED"

\* The quantities of the lines, in order
Quantities(items) == [i \in 1..Len(items) |-> items[i].quantity]

\* C6: addItem, removeItem and updateItemQuantity succeed only while the
\* status is CREATED; in CONFIRMED, DISPATCHED, DELIVERED and CANCELLED each
\* fails with BusinessRuleViolationError and the item list and every item
\* quantity stay as they were.
C6_ItemsChangeOnlyInCreated ==
    [][lastOp'.name \in {"addItem", "removeItem", "updateItemQuantity"} =>
          /\ lastResult' = "ok" => order.status = "CREATED"
          /\ order.status # "CREATED" =>
                /\ lastResult' = "BusinessRuleViolationError"
                /\ order'.items = order.items
                /\ Quantities(order'.items) = Quantities(order.items)]_vars

C6_Witness ==
    /\ lastOp.name = "removeItem" /\ lastOp.productId = "prod-1"
    /\ lastResult = "BusinessRuleViolationError"
    /\ order.status = "CONFIRMED"
    /\ \E i \in 1..Len(order.items) : order.items[i].productId = "prod-1"

\* C7: once the status is DELIVERED or CANCELLED, no call of confirm,
\* dispatch, deliver, cancel, transitionTo, addItem, removeItem or
\* updateItemQuantity changes the status, the item list or an item quantity.
C7_TerminalIsFinal ==
    [][order.status \in {"DELIVERED", "CANCELLED"} =>
          /\ order'.status = order.status
          /\ order'.items = order.items
          /\ Quantities(order'.items) = Quantities(order.items)]_vars

C7_Witness ==
    /\ order.status = "DELIVERED"
    /\ lastOp.name = "addItem" /\ lastResult = "BusinessRuleViolationError"
    /\ Len(order.items) = 2

\* C8 as stated: on a DELIVERED or CANCELLED order transitionTo(t) fails with
\* BusinessRuleViolationError for every target t, a string that names no
\* status included, and the order is unchanged.
C8_TerminalAlwaysBusinessRule ==
    [][(lastOp'.name = "transitionTo" /\ order.status \in {"DELIVERED", "CANCELLED"}) =>
          (lastResult' = "BusinessRuleViolationError" /\ order' = order)]_vars

\* C8 amended: on a DELIVERED or CANCELLED order transitionTo(t) fails and
\* leaves the order unchanged for every target t; the error is
\* BusinessRuleViolationError for every t that names one of the five statuses
\* (in any letter case), the terminal-state check coming before the
\* per-target method, and the plain Error of OrderStatus.create for a string
\* that names no status, the target being parsed before the terminal check.
C8_TerminalRejectsEveryTarget ==
    [][(lastOp'.name = "transitionTo" /\ order.status \in {"DELIVERED", "CANCELLED"}) =>
          /\ order' = order
          /\ now' = now
          /\ lastResult' = IF lastOp'.target \in NamesNoStatus
                           THEN "Error"
                           ELSE "BusinessRuleViolationError"]_vars

C8_Witness ==
    /\ lastOp.name = "transitionTo" /\ lastOp.target = "CONFIRMED"
    /\ lastResult = "BusinessRuleViolationError"
    /\ order.status = "DELIVERED"

\* C9 as stated: on a CREATED, CONFIRMED or DISPATCHED order transitionTo
\* with a target that is not CONFIRMED, DISPATCHED, DELIVERED or CANCELLED
\* (the target CREATED, or a string that names no status) fails with
\* InvalidStateTransitionError and leaves the order unchanged.
C9_OtherTargetInvalidTransition ==
    [][(/\ lastOp'.name = "transitionTo"
        /\ order.status \in {"CREATED", "CONFIRMED", "DISPATCHED"}
        /\ Named(lastOp'.target) \notin {"CONFIRMED", "DISPATCHED", "DELIVERED", "CANCELLED"}) =>
          (lastResult' = "InvalidStateTransitionError" /\ order' = order)]_vars

\* C9 amended: on a CREATED, CONFIRMED or DISPATCHED order transitionTo with
\* the target CREATED fails with InvalidStateTransitionError, and with a
\* string that names no status it fails with the plain Error of
\* OrderStatus.create; in both cases the order is unchanged.
C9_CreatedOrUnknownTargetFails ==
    [][(/\ lastOp'.name = "transitionTo"
        /\ order.status \in {"CREATED", "CONFIRMED", "DISPATCHED"}
        /\ Named(lastOp'.target) \notin {"CONFIRMED", "DISPATCHED", "DELIVERED", "CANCELLED"}) =>
          /\ order' = order
          /\ now' = now
          /\ lastResult' = IF lastOp'.target \in NamesNoStatus
                           THEN "Error"
                           ELSE "InvalidStateTransitionError"]_vars

C9_Witness ==
    /\ lastOp.name = "transitionTo" /\ lastOp.target = "CREATED"
    /\ lastResult = "InvalidStateTransitionError"
    /\ order.status = "CONFIRMED"

\* Some line of items has this productId
HasLine(items, productId) == \E i \in 1..Len(items) : items[i].productId = productId

\* C10: on an order in CREATED, addItem(item) with the productId of an
\* existing line leaves the number of lines unchanged and sets that line's
\* quantity to the old quantity plus item.quantity; with a productId no line
\* has, the item becomes a new last line and the existing lines are unchanged.
C10_AddItemMergesOrAppends ==
    [][(lastOp'.name = "addItem" /\ order.status = "CREATED") =>
          LET item == lastOp'.item
              old == order.items
              new == order'.items
          IN /\ lastResult' = "ok"
             /\ IF HasLine(old, item.productId)
                THEN /\ Len(new) = Len(old)
                     /\ \E i \in 1..Len(old) :
                           /\ old[i].productId = item.productId
                           /\ new[i] = [old[i] EXCEPT !.quantity = old[i].quantity + item.quantity]
                           /\ \A j \in 1..Len(old) : j # i => new[j] = old[j]
                ELSE /\ Len(new) = Len(old) + 1
                     /\ new[Len(new)] = item
                     /\ \A j \in 1..Len(old) : new[j] = old[j]]_vars

C10_Witness ==
    /\ lastOp.name = "addItem" /\ lastResult = "ok"
    /\ lastOp.item.productId = "prod-1" /\ lastOp.item.quantity = 1
    /\ Len(order.items) = 2
    /\ order.items[1].productId = "prod-1" /\ order.items[1].quantity = 2
    /\ order.items[2].productId = "prod-2"

\* C11: in an order made by Order.create with no initial items, after any
\* sequence of addItem, removeItem and updateItemQuantity calls, accepted or
\* rejected, no two lines have the same productId and the quantity of every
\* line is a positive integer.
C11_LinesDistinctAndPositive ==
    /\ \A i, j \in 1..Len(order.items) :
          i # j => order.items[i].productId # order.items[j].productId
    /\ \A i \in 1..Len(order.items) :
          order.items[i].quantity \in Int /\ order.items[i].quantity >= 1

C11_Witness ==
    /\ lastOp.name = "addItem" /\ lastResult = "ok"
    /\ Len(order.items) = 2
    /\ lastOp.item.productId = order.items[1].productId
    /\ order.items[1].quantity = 2

\* The sum over the lines of quantity times unit price, in cents
RECURSIVE LineSum(_)
LineSum(items) ==
    IF Len(items) = 0 THEN 0
    ELSE items[1].quantity * items[1].unitPrice.amount + LineSum(Tail(items))

\* All the lines are priced in one currency
SingleCurrency(items) ==
    \A i, j \in 1..Len(items) : items[i].unitPrice.currency = items[j].unitPrice.currency

\* C12 as stated: in every state reached through addItem, removeItem and
\* updateItemQuantity, on an order whose lines are priced in one currency,
\* whichever it is, totalAmount returns a Money whose amount is the sum over
\* the lines of quantity times unit price, in the currency of the lines, and
\* zero when the order has no lines.
C12_TotalIsSumInLinesCurrency ==
    SingleCurrency(order.items) =>
        LET total == totalAmount(order) IN
        /\ total # MoneyThrown
        /\ total.amount = LineSum(order.items)
        /\ Len(order.items) = 0 => total.amount = 0
        /\ Len(order.items) > 0 => total.currency = order.items[1].unitPrice.currency

\* The operations of the aggregate that can fail
FallibleOperations ==
    {"addItem", "removeItem", "updateItemQuantity", "confirm", "dispatch",
     "deliver", "cancel", "transitionTo"}

\* C13: a call of addItem, removeItem, updateItemQuantity, confirm, dispatch,
\* deliver, cancel or transitionTo that fails leaves the order as it was
\* before the call: the status, the list of lines, the quantity of each line,
\* the notes, updatedAt and the four lifecycle timestamps are unchanged.
C13_FailedCallChangesNothing ==
    [][(lastOp'.name \in FallibleOperations /\ lastResult' # "ok") =>
          /\ order'.status = order.status
          /\ order'.items = order.items
          /\ Quantities(order'.items) = Quantities(order.items)
          /\ order'.notes = order.notes
          /\ order'.updatedAt = order.updatedAt
          /\ order'.confirmedAt = order.confirmedAt
          /\ order'.dispatchedAt = order.dispatchedAt
          /\ order'.deliveredAt = order.deliveredAt
          /\ order'.cancelledAt = order.cancelledAt]_vars

C13_Witness ==
    /\ lastOp.name = "updateItemQuantity" /\ lastOp.quantity = 0
    /\ lastResult = "Error"
    /\ order.status = "CREATED" /\ HasLine(order.items, lastOp.productId)
    /\ Len(order.items) = 2

\* C14: every Order that Order.create returns has the status CREATED,
\* whatever status the props carry, a terminal one included.
C14_CreateForcesCreated ==
    lastOp.name = "create" => order.status = "CREATED"

C14_Witness ==
    /\ lastOp.name = "create" /\ lastOp.target = "CANCELLED"
    /\ order.status = "CREATED"

\* C15: dispatch() in a status other than CONFIRMED and deliver() in a status
\* other than DISPATCHED fail with InvalidStateTransitionError, not with
\* BusinessRuleViolationError, in a terminal status too; when they succeed,
\* dispatch() sets the status to DISPATCHED and sets dispatchedAt, deliver()
\* sets the status to DELIVERED and sets deliveredAt.
C15_DispatchAndDeliverFollowTable ==
    [][/\ lastOp'.name = "dispatch" =>
             IF order.status = "CONFIRMED"
             THEN /\ lastResult' = "ok"
                  /\ order'.status = "DISPATCHED"
                  /\ order'.dispatchedAt # undefined
                  /\ order'.dispatchedAt \in now..now'
             ELSE /\ lastResult' = "InvalidStateTransitionError"
                  /\ order'.status = order.status
                  /\ order'.dispatchedAt = order.dispatchedAt
       /\ lastOp'.name = "deliver" =>
             IF order.status = "DISPATCHED"
             THEN /\ lastResult' = "ok"
                  /\ order'.status = "DELIVERED"
                  /\ order'.deliveredAt # undefined
                  /\ order'.deliveredAt \in now..now'
             ELSE /\ lastResult' = "InvalidStateTransitionError"
                  /\ order'.status = order.status
                  /\ order'.deliveredAt = order.deliveredAt]_vars

C15_Witness ==
    /\ lastOp.name = "dispatch" /\ lastResult = "InvalidStateTransitionError"
    /\ order.status = "DELIVERED" /\ order.deliveredAt # undefined

\* C16 as stated: the lifecycle scenario runs with these outcomes in order:
\* Order.create with no items; confirm() fails; addItem of one item succeeds;
\* confirm() succeeds (CONFIRMED); dispatch() succeeds (DISPATCHED); cancel()
\* fails with BusinessRuleViolationError and the status stays DISPATCHED;
\* deliver() succeeds (DELIVERED); every later transitionTo fails with
\* BusinessRuleViolationError and the status stays DELIVERED.
C16_ScenarioOutcomes ==
    [][/\ ScenarioPosition = 0 =>
             (Len(order.items) = 0 /\ lastResult' # "ok" /\ order'.status = "CREATED")
       /\ ScenarioPosition = 1 => (lastResult' = "ok" /\ Len(order'.items) = 1)
       /\ ScenarioPosition = 2 => (lastResult' = "ok" /\ order'.status = "CONFIRMED")
       /\ ScenarioPosition = 3 => (lastResult' = "ok" /\ order'.status = "DISPATCHED")
       /\ ScenarioPosition = 4 =>
             (lastResult' = "BusinessRuleViolationError" /\ order'.status = "DISPATCHED")
       /\ ScenarioPosition = 5 => (lastResult' = "ok" /\ order'.status = "DELIVERED")
       /\ ScenarioPosition \in {6, 7} =>
             (lastResult' = "BusinessRuleViolationError" /\ order'.status = "DELIVERED")]_vars

\* C16 amended: the same outcomes in the same order, the last one being:
\* every later transitionTo fails and the status stays DELIVERED, with
\* BusinessRuleViolationError when the target names one of the five statuses
\* (in any letter case) and with the plain Error of OrderStatus.create when
\* the target names no status.
C16_ScenarioOutcomesByTarget ==
    [][/\ ScenarioPosition = 0 =>
             (Len(order.items) = 0 /\ lastResult' # "ok" /\ order'.status = "CREATED")
       /\ ScenarioPosition = 1 => (lastResult' = "ok" /\ Len(order'.items) = 1)
       /\ ScenarioPosition = 2 => (lastResult' = "ok" /\ order'.status = "CONFIRMED")
       /\ ScenarioPosition = 3 => (lastResult' = "ok" /\ order'.status = "DISPATCHED")
       /\ ScenarioPosition = 4 =>
             (lastResult' = "BusinessRuleViolationError" /\ order'.status = "DISPATCHED")
       /\ ScenarioPosition = 5 => (lastResult' = "ok" /\ order'.status = "DELIVERED")
       /\ ScenarioPosition \in {6, 7} =>
             /\ order' = order
             /\ lastResult' = IF lastOp'.target \in NamesNoStatus
                              THEN "Error"
                              ELSE "BusinessRuleViolationError"]_vars

C16_Witness ==
    /\ ScenarioPosition = 7
    /\ lastOp.target = "CANCELLED" /\ lastResult = "BusinessRuleViolationError"
    /\ order.status = "DELIVERED" /\ Len(order.items) = 1
    /\ order.confirmedAt # undefined /\ order.dispatchedAt # undefined
    /\ order.deliveredAt # undefined /\ order.cancelledAt = undefined

\* C17 as stated: on an order in CREATED, removeItem(p) fails when no line has
\* the productId p and then leaves all lines unchanged; when a line has the
\* productId p it removes exactly that line, keeps every other line with its
\* quantity in the same relative order, and totalAmount read afterwards is
\* the sum over the remaining lines (taken here only when the remaining
\* lines are priced in one currency).
C17_RemoveItemDropsOneLine ==
    [][(lastOp'.name = "removeItem" /\ order.status = "CREATED") =>
          LET p == lastOp'.productId
              old == order.items
              new == order'.items
          IN IF ~HasLine(old, p)
             THEN lastResult' # "ok" /\ new = old
             ELSE /\ lastResult' = "ok"
                  /\ Len(new) = Len(old) - 1
                  /\ \E i \in 1..Len(old) :
                        /\ old[i].productId = p
                        /\ \A j \in 1..(i - 1) : new[j] = old[j]
                        /\ \A j \in i..Len(new) : new[j] = old[j + 1]
                  /\ SingleCurrency(new) =>
                        /\ totalAmount(order') # MoneyThrown
                        /\ totalAmount(order').amount = LineSum(new)]_vars

\* C18 as stated: in a sequence of UpdateOrderStatus.execute calls on one
\* order, made one after the other, a call with target t on a stored order in
\* status s succeeds exactly when t is in the row of s in the transition
\* table and, for t = CONFIRMED, the stored order has at least one item; on
\* success the stored status and the status of the returned projection are
\* t; so the stored status changes only along the table and a stored terminal
\* status never changes.
C18_ExecuteSucceedsAlongTable ==
    [][(lastOp'.name = "execute" /\ exec'.orderId = StoredId) =>
          LET t == lastOp'.target
              s == order.status
          IN /\ (lastResult' = "ok") <=>
                    (t \in TableRow(s) /\ (t = "CONFIRMED" => Len(order.items) >= 1))
             /\ lastResult' = "ok" => (order'.status = t /\ exec'.response.status = t)
             /\ order'.status # s => order'.status \in TableRow(s)
             /\ s \in {"DELIVERED", "CANCELLED"} => order'.status = s]_vars

\* The repository methods the last execution called
CalledMethods(e) == {e.calls[i] : i \in 1..Len(e.calls)}

\* The four statuses the input of UpdateOrderStatus may name
AllowedTargets == {"CONFIRMED", "DISPATCHED", "DELIVERED", "CANCELLED"}

\* C19: when UpdateOrderStatus.execute fails with NotFoundError, findById
\* having returned no order, or with the error transitionTo raised,
\* orderRepository.update is not called in that execution and the stored
\* order is unchanged; the error of the aggregate reaches the caller with its
\* type unchanged.
C19_FailedExecuteSavesNothing ==
    [][(lastOp'.name = "execute" /\ lastOp'.target \in AllowedTargets) =>
          LET missing == exec'.orderId # StoredId
              raised == transitionTo(order, lastOp'.target, now, now).result
          IN /\ missing =>
                   /\ lastResult' = "NotFoundError"
                   /\ "update" \notin CalledMethods(exec')
                   /\ order' = order
             /\ (~missing /\ raised # "ok") =>
                   /\ lastResult' = raised
                   /\ "update" \notin CalledMethods(exec')
                   /\ order' = order]_vars

C19_Witness ==
    /\ lastOp.name = "execute" /\ lastOp.target = "CONFIRMED"
    /\ exec.orderId = StoredId /\ exec.calls = <<"findById">>
    /\ lastResult = "BusinessRuleViolationError"
    /\ order.status = "CREATED" /\ Len(order.items) = 0

\* C20: UpdateOrderStatus.execute with a status that is not one of CONFIRMED,
\* DISPATCHED, DELIVERED, CANCELLED (CREATED included) fails at the input
\* validation, before any repository call: neither findById nor update is
\* called and no aggregate is touched.
C20_InvalidStatusStopsAtValidation ==
    [][(lastOp'.name = "execute" /\ lastOp'.target \notin AllowedTargets) =>
          /\ lastResult' = "ValidationError"
          /\ exec'.calls = << >>
          /\ order' = order
          /\ now' = now]_vars

C20_Witness ==
    /\ lastOp.name = "execute" /\ lastOp.target = "CREATED"
    /\ exec.orderId = StoredId /\ exec.calls = << >>
    /\ lastResult = "ValidationError"
    /\ order.status = "CONFIRMED"

\* C21: two executions of UpdateOrderStatus on the same order id that overlap
\* in time can both load the same stored copy and both succeed, the later
\* save overwriting the earlier one, so that the stored status moves against
\* the transition table; nothing between load and save detects the stale
\* copy: the write of an execution that has loaded and made its transition
\* always goes through and sets the stored status to that of its copy,
\* whatever the stored status has become, and only the projection built
\* afterwards can still fail.
C21_SaveOverwritesWhateverIsStored ==
    [][\A p \in DOMAIN runs :
          (runs[p].pc = "deleted" /\ runs'[p].pc = "done") =>
              /\ order'.status = runs[p].order.status
              /\ order'.status = runs[p].target
              /\ runs'[p].result = "ok" \/ totalAmount(order') = MoneyThrown]_vars

\* Both executions loaded CONFIRMED, the first saved CANCELLED and returned
\* it, the second then saved DISPATCHED
C21_Witness ==
    /\ runs # NoRuns
    /\ runs[1].pc = "done" /\ runs[2].pc = "done"
    /\ runs[1].loaded = "CONFIRMED" /\ runs[2].loaded = "CONFIRMED"
    /\ runs[1].result = "ok" /\ runs[2].result = "ok"
    /\ runs[1].response.status = "CANCELLED"
    /\ runs[2].response.status = "DISPATCHED"
    /\ order.status = "DISPATCHED" /\ Len(order.items) >= 1
    /\ order.status \notin TableRow(runs[1].response.status)

\* The input of CreateOrder has a valid shape: the retailerId is a uuid and
\* every item has a positive quantity
ShapeValid(dto) ==
    /\ dto.retailerId \in {"uuid-known", "uuid-unknown"}
    /\ \A i \in 1..Len(dto.items) : dto.items[i].quantity >= 1

\* The execution of CreateOrder takes place in this step
CreateOrderRuns ==
    lastOp.name = "CreateOrder.execute" /\ lastResult = "pending" /\ lastResult' # "pending"

\* C22: CreateOrder.execute with a retailerId for which
\* retailerRepository.exists returns false fails with NotFoundError and
\* orderRepository.create is not called in that execution; the retailer is
\* looked up after the input validation (an input of invalid shape fails
\* with ValidationError and no repository is called) and before any Order is
\* constructed (a blank street or customerId, which the domain rejects, does
\* not get to throw).
C22_UnknownRetailerStopsBeforeOrder ==
    [][CreateOrderRuns =>
          LET dto == lastOp.dto IN
          /\ (ShapeValid(dto) /\ dto.retailerId = "uuid-unknown") =>
                /\ lastResult' = "NotFoundError"
                /\ exec'.calls = <<"exists">>
                /\ order' = null
          /\ ~ShapeValid(dto) =>
                /\ lastResult' = "ValidationError"
                /\ exec'.calls = << >>
                /\ order' = null]_vars

C22_Witness ==
    /\ lastOp.name = "CreateOrder.execute"
    /\ lastOp.dto.retailerId = "uuid-unknown" /\ lastOp.dto.street = " "
    /\ Len(lastOp.dto.items) = 2
    /\ lastResult = "NotFoundError" /\ exec.calls = <<"exists">>

\* The sum of the quantities of the input items with this productId
RECURSIVE SumFor(_, _)
SumFor(items, productId) ==
    IF Len(items) = 0 THEN 0
    ELSE (IF items[1].productId = productId THEN items[1].quantity ELSE 0)
         + SumFor(Tail(items), productId)

\* The place of the first input item with this productId
FirstOccurrence(items, productId) ==
    CHOOSE i \in 1..Len(items) :
        /\ items[i].productId = productId
        /\ \A j \in 1..(i - 1) : items[j].productId # productId

\* C23: when CreateOrder.execute succeeds, the order handed to
\* orderRepository.create has the status CREATED and one line for each
\* distinct productId of the input items, the lines in the order in which
\* the productIds first occur, each with the sum of the input quantities of
\* its productId: the lines addItem gives when applied to the input items in
\* input order.
C23_CreatedOrderMergesInputItems ==
    [][(CreateOrderRuns /\ lastResult' = "ok") =>
          LET input == lastOp.dto.items
              lines == order'.items
          IN /\ exec'.calls = <<"exists", "create">>
             /\ order'.status = "CREATED"
             /\ {lines[k].productId : k \in 1..Len(lines)} =
                   {input[i].productId : i \in 1..Len(input)}
             /\ \A k, l \in 1..Len(lines) :
                   k < l => /\ lines[k].productId # lines[l].productId
                            /\ FirstOccurrence(input, lines[k].productId)
                                  < FirstOccurrence(input, lines[l].productId)
             /\ \A k \in 1..Len(lines) :
                   lines[k].quantity = SumFor(input, lines[k].productId)]_vars

C23_Witness ==
    /\ lastOp.name = "CreateOrder.execute" /\ lastResult = "ok"
    /\ Len(lastOp.dto.items) = 3
    /\ lastOp.dto.items[1].productId = "prod-2"
    /\ lastOp.dto.items[2].productId = "prod-1"
    /\ lastOp.dto.items[3].productId = "prod-2"
    /\ Len(order.items) = 2
    /\ order.items[1].productId = "prod-2" /\ order.items[1].quantity = 2
    /\ order.items[2].productId = "prod-1"


\* C24: the pagination projection of ListOrders has
\* hasNext = (page < totalPages) and hasPrevious = (page > 1), totalPages is
\* the least whole number of pages of limit rows that hold total rows, and
\* hasNext is true exactly when page * limit < total, for every accepted
\* page >= 1, limit in 1..100 and total >= 0.
C24_HasNextIffRowsRemain ==
    [][(lastOp.name = "ListOrders.execute" /\ lastResult' = "ok") =>
          LET p == returned' IN
          /\ p.page >= 1 /\ p.limit \in 1..100 /\ p.total = lastOp.total
          /\ p.hasNext = (p.page < p.totalPages)
          /\ p.hasPrevious = (p.page > 1)
          /\ p.totalPages * p.limit >= p.total
          /\ p.totalPages > 0 => (p.totalPages - 1) * p.limit < p.total
          /\ p.hasNext = (p.page * p.limit < p.total)
          /\ (p.total = 0 /\ p.page = 1) => ~p.hasNext]_vars

C24_Witness ==
    /\ lastOp.name = "ListOrders.execute" /\ lastResult = "ok"
    /\ returned.page = 2 /\ returned.limit = 2 /\ returned.total = 5
    /\ returned.totalPages = 3
    /\ returned.hasNext /\ returned.hasPrevious
    /\ returned.orders = <<3, 4>>


\* The rebuilt order r shows the state of the order o: status, lines with
\* their quantities and unit prices, totalAmount and timestamps
SameObservableState(r, o) ==
    /\ r.status = o.status
    /\ Len(r.items) = Len(o.items)
    /\ \A i \in 1..Len(o.items) :
          /\ r.items[i].productId = o.items[i].productId
          /\ r.items[i].quantity = o.items[i].quantity
          /\ r.items[i].unitPrice = o.items[i].unitPrice
    /\ totalAmount(r) = totalAmount(o)
    /\ r.createdAt = o.createdAt /\ r.updatedAt = o.updatedAt
    /\ r.confirmedAt = o.confirmedAt /\ r.dispatchedAt = o.dispatchedAt
    /\ r.deliveredAt = o.deliveredAt /\ r.cancelledAt = o.cancelledAt

\* The rebuilt order r accepts and rejects every call as the order o does
SameFurtherBehaviour(r, o, t) ==
    /\ \A item \in OrderItems : addItem(r, item, t).result = addItem(o, item, t).result
    /\ \A p \in ProductIdArgs :
          /\ removeItem(r, p, t).result = removeItem(o, p, t).result
          /\ \A q \in QuantityArgs :
                updateItemQuantity(r, p, q, t).result = updateItemQuantity(o, p, q, t).result
    /\ confirm(r, t, t).result = confirm(o, t, t).result
    /\ dispatch(r, t, t).result = dispatch(o, t, t).result
    /\ deliver(r, t, t).result = deliver(o, t, t).result
    /\ cancel(r, t, t).result = cancel(o, t, t).result
    /\ \A s \in RawStatusStrings :
          transitionTo(r, s, t, t).result = transitionTo(o, s, t, t).result

RoundTrips(o, t) ==
    /\ toJSON(o) # JSONThrown
    /\ SameObservableState(reconstituteFromJSON(toJSON(o), t), o)
    /\ SameFurtherBehaviour(reconstituteFromJSON(toJSON(o), t), o, t)

\* C25: every order reachable through the aggregate's operations is
\* serialized by toJSON, and the order rebuilt from the serialized fields by
\* Order.reconstitute has the same status, lines, totalAmount and
\* timestamps and accepts and rejects every further call as the original.
C25_ToJSONReconstituteRoundTrip == RoundTrips(order, now)

\* The same, for the orders whose lines are all priced in USD
RoundTripOfUSDOrders ==
    (\A i \in 1..Len(order.items) : order.items[i].unitPrice.currency = "USD")
       => RoundTrips(order, now)


\* The comparison methods of Money
Comparisons == {"equals", "greaterThan", "lessThan"}

\* C26 as stated: equals, greaterThan and lessThan each raise an error when
\* the two Money values have different currencies; none of them returns a
\* boolean for a cross-currency comparison.
C26_ComparisonsRequireSameCurrency ==
    [][(lastOp'.name \in Comparisons /\ lastOp'.this.currency # lastOp'.other.currency)
          => lastResult' = "Error" /\ returned' = NoValue]_vars

\* C26, amended: greaterThan and lessThan raise an error when the currencies
\* differ and compare the amounts when they are the same; equals never
\* raises: it returns true exactly when the amounts and the currencies are
\* both equal, so false for every cross-currency comparison.
C26_OrderingRequiresSameCurrency ==
    [][lastOp'.name \in Comparisons =>
          LET a == lastOp'.this
              b == lastOp'.other
          IN /\ lastOp'.name = "equals" =>
                   /\ lastResult' = "ok"
                   /\ returned' = Boolean(a.amount = b.amount /\ a.currency = b.currency)
                   /\ a.currency # b.currency => returned' = Boolean(FALSE)
             /\ (lastOp'.name # "equals" /\ a.currency # b.currency) =>
                   lastResult' = "Error" /\ returned' = NoValue
             /\ (lastOp'.name = "greaterThan" /\ a.currency = b.currency) =>
                   lastResult' = "ok" /\ returned' = Boolean(a.amount > b.amount)
             /\ (lastOp'.name = "lessThan" /\ a.currency = b.currency) =>
                   lastResult' = "ok" /\ returned' = Boolean(a.amount < b.amount)]_vars

\* equals has answered a comparison of equal amounts in two currencies, and
\* the ordering of such a pair has been refused
C26_Witness ==
    /\ lastOp.name = "equals" /\ lastResult = "ok"
    /\ lastOp.this = MoneyCreate(2, "USD") /\ lastOp.other = MoneyCreate(2, "EUR")
    /\ returned = Boolean(FALSE)

\* The operations of Money that return a Money
MoneyMakers == {"create", "zero", "add", "subtract", "multiply"}

\* C27: every Money obtainable from create, zero, add, subtract and
\* multiply has amount >= 0: create fails on a negative amount, subtract
\* fails when the result would be negative, multiply fails on a negative
\* factor, add and subtract fail when the currencies differ, and a call that
\* fails returns no value and leaves both operands as they were.
C27_MoneyAmountNeverNegative ==
    [][lastOp'.name \in MoneyMakers =>
          LET call == lastOp'
              a == lastOp'.this
              b == lastOp'.other
          IN /\ a = runs[1] /\ b = runs[2]
             /\ runs'[1].amount >= 0 /\ runs'[2].amount >= 0
             /\ lastResult' = "ok" => returned'.amount >= 0
             /\ (call.name = "create" /\ call.amount < 0) => lastResult' = "Error"
             /\ (call.name = "subtract" /\ a.amount - b.amount < 0) => lastResult' = "Error"
             /\ (call.name = "multiply" /\ call.factor < 0) => lastResult' = "Error"
             /\ (call.name \in {"add", "subtract"} /\ a.currency # b.currency)
                   => lastResult' = "Error"
             /\ lastResult' = "Error" => returned' = NoValue /\ runs' = runs]_vars

\* subtract has refused a result below zero, the operands being in one
\* currency
C27_Witness ==
    /\ lastOp.name = "subtract" /\ lastResult = "Error"
    /\ lastOp.this = MoneyCreate(1, "EUR") /\ lastOp.other = MoneyCreate(3, "EUR")
    /\ runs = <<MoneyCreate(1, "EUR"), MoneyCreate(3, "EUR")>>
    /\ returned = NoValue


\* Two orders have been made by Order.create
TwoOrdersMade == Len(returned.numbers) = 2

C29_PredicatesAgreeWithTable ==
    Probed =>
       LET s == OrderStatusCreate(pFrom)
           cancellable == {x \in OrderStatusEnum : isCancellable(x)}
           nonTerminal == {x \in OrderStatusEnum : ~isTerminal(x)}
       IN /\ s \in FiveStatuses
          /\ isTerminal(s) <=> VALID_TRANSITIONS[s] = {}
          /\ isTerminal(s) <=> TableRow(s) = {}
          /\ isTerminal(s) <=> s \in {"DELIVERED", "CANCELLED"}
          /\ isCancellable(s) <=> s \in {"CREATED", "CONFIRMED"}
          /\ isCancellable(s) <=> canTransitionTo(s, OrderStatusCreate("CANCELLED"))
          /\ OrderStatusCreate(pTo) = "CANCELLED" => (isCancellable(s) <=> pResult = "true")
          /\ cancellable \subseteq nonTerminal /\ cancellable # nonTerminal

\* canTransitionTo(CANCELLED) has answered false on DISPATCHED, the status
\* that is neither terminal nor cancellable
C29_Witness ==
    /\ Probed /\ pFrom = "DISPATCHED" /\ pTo = "CANCELLED" /\ pResult = "false"
    /\ ~isTerminal(OrderStatusCreate(pFrom)) /\ ~isCancellable(OrderStatusCreate(pFrom))


\* addItem has returned on an item that may carry an id
AddedIdentified == lastOp'.name = "addItem" /\ lastResult' = "ok"

\* The call merged the item into a line / made it a new last line
Merged == Len(order'.items) = Len(order.items)
Appended == order'.items = Append(order.items, lastOp'.item)

\* C30 as stated: addItem merges the new item into an existing line exactly
\* when OrderItem.equals(existing, new) is true for some existing line: both
\* have an id and the ids are equal, otherwise their productIds are equal.
C30_AddItemMergesByEquals ==
    [][AddedIdentified =>
          (Merged <=> \E i \in 1..Len(order.items) : equals(order.items[i], lastOp'.item))]_vars

\* C30, amended: addItem merges the new item into the first line with the
\* same productId and appends it when no line has that productId, whatever
\* the ids; this is the answer of OrderItem.equals whenever the new item has
\* no id or no line has one.
C30_AddItemMergesByProductId ==
    [][AddedIdentified =>
          LET item == lastOp'.item
              lines == order.items
          IN /\ Merged <=> HasLine(lines, item.productId)
             /\ ~Merged <=> Appended
             /\ Merged =>
                   LET idx == findIndex(lines, item.productId) IN
                   /\ order'.items[idx].quantity = lines[idx].quantity + item.quantity
                   /\ order'.items[idx].id = lines[idx].id
                   /\ \A k \in 1..Len(lines) : k # idx => order'.items[k] = lines[k]
             /\ (~hasId(item) \/ \A i \in 1..Len(lines) : ~hasId(lines[i]))
                   => (Merged <=> \E i \in 1..Len(lines) : equals(lines[i], item))]_vars

\* An item with an id has been merged into a line of the same product that
\* carries another id
C30_Witness ==
    /\ lastOp.name = "addItem" /\ lastResult = "ok"
    /\ lastOp.item.id = "item-2" /\ lastOp.item.productId = "prod-1"
    /\ Len(order.items) = 1
    /\ order.items[1].id = "item-1" /\ order.items[1].productId = "prod-1"
    /\ order.items[1].quantity = 2


\* The quantities of the lines, in line order
LineQuantities(o) == [i \in 1..Len(o.items) |-> o.items[i].quantity]

\* C31: the lines of an Order are not shared with code outside the Order:
\* updateQuantity called on an OrderItem reference the caller passed to
\* addItem, passed in the items of Order.create or got from the items getter
\* changes no line quantity and not the totalAmount of the order, and no
\* line quantity changes once the order has left CREATED.
C31_LinesNotShared ==
    [][/\ lastOp'.name = "OrderItem.updateQuantity" =>
              /\ LineQuantities(order') = LineQuantities(order)
              /\ totalAmount(order') = totalAmount(order)
       /\ order.status # "CREATED" => LineQuantities(order') = LineQuantities(order)]_vars


\* The lifecycle timestamps of the order o that are set
SetStamps(o) ==
    {f \in {"confirmedAt", "dispatchedAt", "deliveredAt", "cancelledAt"} : o[f] # undefined}

\* The set timestamps match the status
StampsMatchStatus(o) ==
    CASE o.status = "CREATED"    -> SetStamps(o) = {}
      [] o.status = "CONFIRMED"  -> SetStamps(o) = {"confirmedAt"}
      [] o.status = "DISPATCHED" -> SetStamps(o) = {"confirmedAt", "dispatchedAt"}
      [] o.status = "DELIVERED"  -> SetStamps(o) = {"confirmedAt", "dispatchedAt", "deliveredAt"}
      [] o.status = "CANCELLED"  -> /\ "cancelledAt" \in SetStamps(o)
                                    /\ "dispatchedAt" \notin SetStamps(o)
                                    /\ "deliveredAt" \notin SetStamps(o)

\* C32: for an order made by Order.create with no lifecycle timestamps in
\* the props, in every reachable state the set timestamps match the status
\* history (CREATED none; CONFIRMED confirmedAt only; DISPATCHED confirmedAt
\* and dispatchedAt only; DELIVERED those and deliveredAt, no cancelledAt;
\* CANCELLED cancelledAt and neither dispatchedAt nor deliveredAt), and a
\* lifecycle timestamp, once set, is never changed or cleared.
C32_StampsMatchStatusHistory ==
    [][/\ StampsMatchStatus(order)
       /\ StampsMatchStatus(order')
       /\ \A f \in SetStamps(order) : order'[f] = order[f]]_vars

\* An order cancelled after it was confirmed, and touched again afterwards
C32_Witness ==
    /\ order.status = "CANCELLED"
    /\ SetStamps(order) = {"confirmedAt", "cancelledAt"}
    /\ lastOp.name = "updateNotes" /\ lastResult = "ok"
    /\ order.cancelledAt < order.updatedAt


\* a <= b, read only when both timestamps are set
Before(a, b) == (a # undefined /\ b # undefined) => a <= b

\* The set timestamps of the order o are in the order of its life
StampsOrdered(o) ==
    /\ Before(o.createdAt, o.confirmedAt)
    /\ Before(o.confirmedAt, o.dispatchedAt)
    /\ Before(o.dispatchedAt, o.deliveredAt)
    /\ Before(o.deliveredAt, o.updatedAt)
    /\ Before(o.confirmedAt, o.cancelledAt)
    /\ Before(o.cancelledAt, o.updatedAt)
    /\ \A f \in {"confirmedAt", "dispatchedAt", "deliveredAt", "cancelledAt"} :
          Before(o.createdAt, o[f]) /\ Before(o[f], o.updatedAt)
    /\ o.createdAt <= o.updatedAt

TerminalWithinReach(o, t) ==
    \E r \in {confirm(o, t, t), dispatch(o, t, t), deliver(o, t, t), cancel(o, t, t)} :
        r.result = "ok" /\ r.order.status \in {"DELIVERED", "CANCELLED"}

\* C34: the status of an order changes at most three times in its life: no
\* sequence of operations holds more than three successful status
\* transitions or visits a status twice, and from every non-terminal status
\* reached from Order.create a terminal status (DELIVERED or CANCELLED) can
\* still be reached.
C34_AtMostThreeStatusChanges ==
    /\ runs[Len(runs)] = order.status
    /\ Len(runs) - 1 <= 3
    /\ \A i, j \in 1..Len(runs) : i # j => runs[i] # runs[j]
    /\ order.status \notin {"DELIVERED", "CANCELLED"} => TerminalWithinReach(order, now)

\* An order that has changed its status three times
C34_Witness ==
    /\ runs = <<"CREATED", "CONFIRMED", "DISPATCHED", "DELIVERED">>
    /\ order.status = "DELIVERED" /\ lastOp.name = "deliver" /\ lastResult = "ok"


\* The methods that change the status, and those that change the lines
StatusOperations == {"confirm", "dispatch", "deliver", "cancel", "transitionTo"}
ItemOperations == {"addItem", "removeItem", "updateItemQuantity"}

\* The four lifecycle timestamps of the order o
LifecycleStamps(o) == <<o.confirmedAt, o.dispatchedAt, o.deliveredAt, o.cancelledAt>>

\* C35: status operations and item operations touch disjoint parts of the
\* order: a successful confirm, dispatch, deliver, cancel or transitionTo
\* leaves the line list, every line quantity, notes, createdAt and the
\* identity fields unchanged, and a successful addItem, removeItem or
\* updateItemQuantity leaves status and the four lifecycle timestamps
\* unchanged.
C35_StatusAndItemFramesDisjoint ==
    [][/\ (lastOp'.name \in StatusOperations /\ lastResult' = "ok") =>
              /\ order'.items = order.items
              /\ order'.notes = order.notes
              /\ order'.createdAt = order.createdAt
              /\ order'.identity = order.identity
              /\ order'.status # order.status
       /\ (lastOp'.name \in ItemOperations /\ lastResult' = "ok") =>
              /\ order'.status = order.status
              /\ LifecycleStamps(order') = LifecycleStamps(order)
              /\ order'.identity = order.identity]_vars

\* An order with two lines and notes has been delivered
C35_Witness ==
    /\ lastOp.name = "deliver" /\ lastResult = "ok"
    /\ Len(order.items) = 2 /\ order.notes = "leave at the door"
    /\ order.identity = Identity


\* C36: updateNotes succeeds in every status, the terminal statuses
\* DELIVERED and CANCELLED included, and changes only notes and updatedAt:
\* status, lines, quantities and lifecycle timestamps are unchanged.
C36_UpdateNotesAlwaysSucceeds ==
    [][lastOp'.name = "updateNotes" =>
          /\ lastResult' = "ok"
          /\ order'.notes = lastOp'.notes
          /\ order'.updatedAt = now'
          /\ order'.status = order.status
          /\ order'.items = order.items
          /\ <<order'.confirmedAt, order'.dispatchedAt, order'.deliveredAt, order'.cancelledAt>>
                = <<order.confirmedAt, order.dispatchedAt, order.deliveredAt, order.cancelledAt>>
          /\ [order' EXCEPT !.notes = order.notes, !.updatedAt = order.updatedAt] = order]_vars

\* The notes of a delivered order have been replaced, later than its delivery
C36_Witness ==
    /\ lastOp.name = "updateNotes" /\ lastResult = "ok"
    /\ order.status = "DELIVERED" /\ Len(order.items) > 0
    /\ order.notes = "leave at the door"
    /\ order.deliveredAt < order.updatedAt


\* C37: CreateOrder.execute is all-or-nothing with respect to the
\* repository: whenever the execution ends with an error (validation,
\* missing retailer, item or address construction, or an error raised while
\* the response projection is built, such as computing totalAmount), no
\* order has been persisted by orderRepository.create.
C37_FailedCreatePersistsNothing ==
    [][(CreateOrderRuns /\ lastResult' # "ok") =>
          /\ order' = null
          /\ \A i \in 1..Len(exec'.calls) : exec'.calls[i] # "create"]_vars

\* The same, for the errors raised before the response projection is built
FailedCreateBeforeProjectionPersistsNothing ==
    [][(CreateOrderRuns /\ lastResult' # "ok" /\ exec'.thrownBy # "mapToResponse") =>
          /\ order' = null
          /\ \A i \in 1..Len(exec'.calls) : exec'.calls[i] # "create"]_vars


\* C38: every order that findById returns with status CONFIRMED, DISPATCHED
\* or DELIVERED has at least one item, also when the read runs while
\* update of the same order is in progress or after that update failed
\* part-way: update replaces the stored lines and the stored status as one
\* atomic step.
C38_ReadsSeeConfirmedOrdersWithLines ==
    lastOp.name = "findById" =>
       (returned.status \in {"CONFIRMED", "DISPATCHED", "DELIVERED"} => Len(returned.items) > 0)



\* A RETAILER user's request on the stored order, which belongs to another
\* retailer, has been handled
ForeignRetailerHandled ==
    /\ lastOp.name \in {"updateStatus", "addItem", "removeItem"}
    /\ lastResult = "pending" /\ lastResult' # "pending"
    /\ lastOp.user.role = "RETAILER"
    /\ lastOp.orderId = StoredId
    /\ order.identity.retailerId # lastOp.user.retailerId

\* C39: a user with role RETAILER can never change an order of another
\* retailer: updateStatus, addItem and removeItem called by a RETAILER user
\* on an order whose retailerId differs from the user's end with
\* ForbiddenError before the mutating use case runs, and the stored order is
\* unchanged.
C39_ForeignRetailerIsForbidden ==
    [][ForeignRetailerHandled =>
          /\ lastResult' = "ForbiddenError"
          /\ exec'.calls = <<"getOrderUseCase">>
          /\ order' = order]_vars

\* The same, with the error left open: the request ends with an error, the
\* mutating use case has not run and the stored order is unchanged
ForeignRetailerChangesNothing ==
    [][ForeignRetailerHandled =>
          /\ lastResult' \in {"ForbiddenError", "Error"}
          /\ lastResult' = "Error" => mapToResponse(order) = ResponseThrown
          /\ exec'.calls = <<"getOrderUseCase">>
          /\ order' = order]_vars

=============================================================================
